---- MODULE Spec2Model ----
(***************************************************************************)
(* Model of the CEBL Home Assistant integration (custom_components/cebl):  *)
(* the data update coordinator (fixture refresh, gated live-score poll)    *)
(* and the per-team sensor (fixture selection, live-data currency check,   *)
(* lifecycle-state derivation, live-update timer).                         *)
(*                                                                         *)
(* Time is counted in seconds.  A start_time_utc string is modelled by its *)
(* lexical kind and the instant it denotes:                                *)
(*   "iso"     "2025-06-01T19:00:00Z"       ('T' separator, UTC)           *)
(*   "space"   "2025-06-01 19:00:00+00:00"  (no 'T', explicit UTC offset)  *)
(*   "empty"   ""                                                          *)
(*   "garbage" "TBD"                        (not a timestamp at all)       *)
(*   "invalid" "2025-02-30T19:00:00Z"       (well formed, no such date)    *)
(*   "missing" None                                                        *)
(* An optional value (Python None or a value) is a sequence of length 0 or *)
(* 1.  A clock string is modelled by the list of parts str.split(':')      *)
(* gives, so "" is <<"">> and "00:00:30" is <<"00","00","30">>.            *)
(***************************************************************************)
EXTENDS Integers, Sequences, FiniteSets, TLC

VARIABLES
    now,        \* current time in seconds (datetime.now / dt.now)
    data,       \* coordinator.data
    match_ids,  \* coordinator.match_ids: ordered dict game id -> match id
    poll,       \* the live-score poll in flight (async_update_live_scores)
    sensors,    \* per tracked team: the CEBLTeamSensor's fields
    ticks,      \* number of clock advances taken so far
    response    \* the answer the fixtures endpoint gives, where one is fixed

vars == <<now, data, match_ids, poll, sensors, ticks, response>>

---------------------------------------------------------------------------
(* Bounds of the model                                                     *)

MaxFixtures == 2      \* games in one fixtures response
MaxTicks == 1         \* clock advances in one behaviour

---------------------------------------------------------------------------
(* Program constants                                                       *)

ONE_DAY == 86400            \* _get_team_fixture: completed game older than this
STALE_SECONDS == 3600       \* _is_live_data_current: scheduled game further away
GRACE_SECONDS == 3600       \* _update_fixture_state: timedelta(hours=1)
FETCH_WINDOW == 900         \* async_update_live_scores: +-15 minutes
FINAL_STATS_HOURS == 24     \* async_update_live_scores: completed within 24 h
FINAL_PERIOD == 4           \* _update_live_game_state: period >= 4
DATETIME_MAX == 1000000000  \* datetime.max as a sort key
DATETIME_MIN == -1000000000 \* datetime.min as a sort key

Hours(n) == n * 3600
Minutes(n) == n * 60
Days(n) == n * 86400

\* entry.data["teams"]: the tracked team ids; Teams are all ids the feed knows
Teams == {"1", "2", "3"}
TrackedTeams == {"1", "2"}

TeamName(t) == CASE t = "1" -> "Stingers" [] t = "2" -> "Blackjacks" [] OTHER -> "Surge"

---------------------------------------------------------------------------
(* Optional values                                                         *)

None == <<>>
Some(v) == <<v>>
IsSome(o) == o # <<>>
Get(o) == o[1]

---------------------------------------------------------------------------
(* Status vocabulary                                                       *)

\* str.upper() on the status strings the model feeds in
upper(s) ==
    CASE s = "Final" -> "FINAL"
      [] s = "scheduled" -> "SCHEDULED"
      [] s = "live" -> "LIVE"
      [] OTHER -> s

SELECT_LIVE_STATUSES == {"LIVE", "IN_PROGRESS", "HALFTIME", "QUARTER_BREAK"}
COMPLETED_STATUSES == {"COMPLETE", "COMPLETED", "FINAL"}
GATE_LIVE_STATUSES == {"IN", "LIVE", "HT", "BT"}
GATE_COMPLETED_STATUSES == {"POST", "COMPLETE"}

---------------------------------------------------------------------------
(* Timestamp parsing: three different parsers are applied to the same      *)
(* start_time_utc string.  Each returns [ok, t, raised].                   *)

Time(kind, t) == [kind |-> kind, t |-> t]
Parsed(t) == [ok |-> TRUE, t |-> t, raised |-> FALSE]
NoParse == [ok |-> FALSE, t |-> 0, raised |-> FALSE]
ParseRaised == [ok |-> FALSE, t |-> 0, raised |-> TRUE]

\* truthiness of the start_time_utc string
truthy_time(st) == st.kind \notin {"empty", "missing"}

\* _get_team_fixture: only strings containing 'T' are parsed, ValueError caught
parse_start_select(st) ==
    IF ~truthy_time(st) THEN NoParse
    ELSE IF st.kind = "iso" THEN Parsed(st.t)
    ELSE NoParse

\* _is_live_data_current / async_update_live_scores:
\* datetime.fromisoformat(...).replace(tzinfo=UTC); raises on anything else
parse_start_fromiso(st) ==
    IF st.kind \in {"iso", "space"} THEN Parsed(st.t) ELSE ParseRaised

\* homeassistant.util.dt.parse_datetime: None when not well formed, ValueError
\* when well formed but not a date, TypeError on None
parse_datetime(st) ==
    CASE st.kind \in {"iso", "space"} -> Parsed(st.t)
      [] st.kind \in {"empty", "garbage"} -> NoParse
      [] OTHER -> ParseRaised

---------------------------------------------------------------------------
(* Python's list.sort: a stable sort on the field key, ascending, or        *)
(* descending with reverse=True (equal keys keep their order either way).  *)

RECURSIVE insert_stable(_, _, _)
insert_stable(sorted, x, reverse) ==
    IF sorted = <<>> THEN <<x>>
    ELSE LET h == Head(sorted) IN
         IF (IF reverse THEN h.key >= x.key ELSE h.key <= x.key)
         THEN <<h>> \o insert_stable(Tail(sorted), x, reverse)
         ELSE <<x>> \o sorted

RECURSIVE list_sort(_, _)
list_sort(seq, reverse) ==
    IF seq = <<>> THEN <<>>
    ELSE insert_stable(list_sort(SubSeq(seq, 1, Len(seq) - 1), reverse),
                       seq[Len(seq)], reverse)

---------------------------------------------------------------------------
(* Coordinator data                                                        *)

\* self.data before the first refresh
NoData == [present |-> FALSE, fixtures |-> <<>>, live_scores |-> <<>>]
\* {"fixtures": fixtures}, optionally with "live_scores" (an ordered dict,
\* here a sequence of [game_id, snap] entries; absent and empty read alike)
Data(fixtures, live_scores) ==
    [present |-> TRUE, fixtures |-> fixtures, live_scores |-> live_scores]

\* a membership test that looks at the home side only
belongs_home_only(f, team) == f.home = team

belongs(f, team) == f.home = team \/ f.away = team

---------------------------------------------------------------------------
(* CEBLBaseSensor._get_team_fixture                                        *)

\* the category a fixture is put in: "live", "upcoming" or "completed"
category(f, t) ==
    LET status == upper(f.status)
        start_time == parse_start_select(f.start)
    IN  IF status \in SELECT_LIVE_STATUSES THEN "live"
        ELSE IF status \in COMPLETED_STATUSES THEN "completed"
        ELSE IF start_time.ok /\ t < start_time.t THEN "upcoming"
        ELSE "completed"

\* a sort key that puts a game without start time at the far future always
game_tuple_none_is_max(f, st, none_key) ==
    [f |-> f, st |-> st, key |-> IF st.ok THEN st.t ELSE DATETIME_MAX]

\* a (fixture, start_time) tuple with its sort key
game_tuple(f, st, none_key) ==
    [f |-> f, st |-> st, key |-> IF st.ok THEN st.t ELSE none_key]

game_tuples(pick, none_key) ==
    [i \in 1..Len(pick) |->
        game_tuple(pick[i], parse_start_select(pick[i].start), none_key)]

\* the (fixture, start_time) tuples of one category
categorized(team_fixtures, cat, t, none_key) ==
    game_tuples(SelectSeq(team_fixtures, LAMBDA f: category(f, t) = cat), none_key)

\* a transition rule that lets go of the completed game after 12 hours
transition_rule_half_day(next_game, recent_game, t) ==
    IF recent_game.st.ok
    THEN IF t - recent_game.st.t > Hours(12) THEN next_game.f ELSE recent_game.f
    ELSE next_game.f

\* a transition rule that prefers an upcoming game that starts within 48 hours
transition_rule_near_upcoming(next_game, recent_game, t) ==
    IF next_game.st.ok /\ next_game.st.t - t <= Hours(48) THEN next_game.f
    ELSE IF recent_game.st.ok
    THEN IF t - recent_game.st.t > ONE_DAY THEN next_game.f ELSE recent_game.f
    ELSE next_game.f

\* the transition rule between the most recent completed and the next game
transition_rule(next_game, recent_game, t) ==
    IF recent_game.st.ok
    THEN IF t - recent_game.st.t > ONE_DAY THEN next_game.f ELSE recent_game.f
    ELSE next_game.f

\* a priority that looks at the live games last
select_game_live_last(team_fixtures, live_games, upcoming_games, completed_games, t) ==
    IF upcoming_games # <<>> /\ completed_games # <<>>
    THEN Some(transition_rule(upcoming_games[1], completed_games[1], t))
    ELSE IF upcoming_games # <<>> THEN Some(upcoming_games[1].f)
    ELSE IF completed_games # <<>> THEN Some(completed_games[1].f)
    ELSE IF live_games # <<>> THEN Some(live_games[1])
    ELSE Some(team_fixtures[1])

\* the priority among the three categories
select_game(team_fixtures, live_games, upcoming_games, completed_games, t) ==
    IF live_games # <<>> THEN Some(live_games[1])
    ELSE IF upcoming_games # <<>> /\ completed_games # <<>>
         THEN Some(transition_rule(upcoming_games[1], completed_games[1], t))
    ELSE IF upcoming_games # <<>> THEN Some(upcoming_games[1].f)
    ELSE IF completed_games # <<>> THEN Some(completed_games[1].f)
    ELSE Some(team_fixtures[1])

\* categorising and sorting the team's fixtures
select_fixture(team_fixtures, t) ==
    IF team_fixtures = <<>> THEN None
    ELSE select_game(
            team_fixtures,
            SelectSeq(team_fixtures, LAMBDA f: category(f, t) = "live"),
            list_sort(categorized(team_fixtures, "upcoming", t, DATETIME_MAX), FALSE),
            list_sort(categorized(team_fixtures, "completed", t, DATETIME_MIN), TRUE),
            t)

_get_team_fixture(d, team, t) ==
    IF ~d.present \/ d.fixtures = <<>> THEN None
    ELSE select_fixture(SelectSeq(d.fixtures, LAMBDA f: belongs(f, team)), t)

---------------------------------------------------------------------------
(* CEBLBaseSensor._get_team_live_data: the first live_scores entry whose   *)
(* fixture (looked up by id) involves the team, with that fixture          *)

fixture_by_id(fixtures, game_id) ==
    LET hits == SelectSeq(fixtures, LAMBDA f: f.id = game_id)
    IN  IF hits = <<>> THEN None ELSE Some(hits[1])

_get_team_live_data(d, team) ==
    IF ~d.present \/ d.live_scores = <<>> THEN None
    ELSE
    LET hits == SelectSeq(d.live_scores, LAMBDA e:
                    LET fx == fixture_by_id(d.fixtures, e.game_id)
                    IN  IsSome(fx) /\ belongs(Get(fx), team))
    IN  IF hits = <<>> THEN None
        ELSE Some([live_data |-> hits[1].snap,
                   fixture |-> Get(fixture_by_id(d.fixtures, hits[1].game_id))])

---------------------------------------------------------------------------
(* CEBLTeamSensor._is_live_data_current                                    *)

\* a currency check without the one-hour rule for scheduled games
_is_live_data_current_no_hour_rule(live_data, fixture, t) ==
    IF ~truthy_time(fixture.start) THEN TRUE
    ELSE IF ~parse_start_fromiso(fixture.start).ok THEN TRUE
    ELSE IF live_data.has_live /\ live_data.live # 1
            /\ upper(fixture.status) = "SCHEDULED" THEN FALSE
    ELSE TRUE

\* a currency check without the rule for an explicit not-live indicator
_is_live_data_current_no_live_rule(live_data, fixture, t) ==
    IF ~truthy_time(fixture.start) THEN TRUE
    ELSE IF ~parse_start_fromiso(fixture.start).ok THEN TRUE
    ELSE IF upper(fixture.status) = "SCHEDULED" /\ parse_start_fromiso(fixture.start).t > t
            /\ parse_start_fromiso(fixture.start).t - t > STALE_SECONDS THEN FALSE
    ELSE TRUE

_is_live_data_current(live_data, fixture, t) ==
    IF ~truthy_time(fixture.start) THEN TRUE
    ELSE
    LET fixture_dt == parse_start_fromiso(fixture.start)
        fixture_status == upper(fixture.status)
    IN  IF ~fixture_dt.ok THEN TRUE
        ELSE IF fixture_status = "SCHEDULED" /\ fixture_dt.t > t
                /\ fixture_dt.t - t > STALE_SECONDS THEN FALSE
        ELSE IF live_data.has_live /\ live_data.live # 1
                /\ fixture_status = "SCHEDULED" THEN FALSE
        ELSE TRUE

---------------------------------------------------------------------------
(* Sensor fields and helpers                                               *)

\* CEBLBaseSensor.__init__ / CEBLTeamSensor.__init__
\* state "None" is Python None; remover is "_live_update_remover is not None";
\* timers counts this sensor's registered 30-second interval callbacks;
\* timer_id is the handle stored in _live_update_remover: 0 is None, 1 and 2
\* are two handles, so that a handle that replaces a stored one differs from it;
\* raised records whether the last _update_state call raised; removed is set
\* once async_will_remove_from_hass has run
NewSensor(team) ==
    [team_id |-> team, state |-> "None", is_live_game |-> FALSE,
     attrs |-> [k \in {} |-> ""], cur |-> None,
     remover |-> FALSE, timers |-> 0, timer_id |-> 0,
     added |-> FALSE, updated |-> FALSE, raised |-> FALSE, removed |-> FALSE]

\* _safe_score: None -> 0, otherwise the integer
_safe_score(score_value) == IF score_value = None THEN 0 ELSE Get(score_value)

Abs(n) == IF n < 0 THEN -n ELSE n

\* dict.update: the new keys win, the old keys that are not replaced stay
dict_update(old, new) ==
    [k \in (DOMAIN old) \cup (DOMAIN new) |->
        IF k \in DOMAIN new THEN new[k] ELSE old[k]]

\* _setup_live_updates: cancel a stored remover, register a new timer
_setup_live_updates(s) ==
    [s EXCEPT !.timers = (IF s.remover THEN s.timers - 1 ELSE s.timers) + 1,
              !.timer_id = (IF s.remover THEN 3 - s.timer_id ELSE 1),
              !.remover = TRUE]

\* _remove_live_updates: cancel and forget the stored remover
_remove_live_updates(s) ==
    IF s.remover
    THEN [s EXCEPT !.timers = s.timers - 1, !.timer_id = 0, !.remover = FALSE]
    ELSE s

\* a removal that cancels the one-minute timer only
async_will_remove_from_hass_time_only(s) ==
    [s EXCEPT !.added = FALSE, !.removed = TRUE]

\* async_will_remove_from_hass: the stored remover, if any, is called and
\* stays stored; the entity's on-remove callbacks take the sensor off the
\* coordinator's listeners
async_will_remove_from_hass(s) ==
    [s EXCEPT !.timers = IF s.remover THEN s.timers - 1 ELSE s.timers,
              !.added = FALSE, !.removed = TRUE]

---------------------------------------------------------------------------
(* CEBLTeamSensor: the timing calculators.  Each tests the string, then     *)
(* parses it inside a try that catches ValueError and TypeError.           *)

\* the elapsed time since the start, in seconds (the code divides the
\* seconds by 3600: the value here is the attribute times 3600)
_calculate_hours_since_game(start_time_utc, game_status, t) ==
    IF ~truthy_time(start_time_utc) \/ game_status \notin COMPLETED_STATUSES THEN None
    ELSE IF parse_datetime(start_time_utc).ok
         THEN Some(t - parse_datetime(start_time_utc).t)
    ELSE None

\* f"In {n} {unit}"
in_text(n, unit) == "In " \o ToString(n) \o " " \o unit

\* timedelta.days and timedelta.seconds of a positive difference
delta_days(total) == total \div ONE_DAY
delta_seconds(total) == total % ONE_DAY

_calculate_time_until_game(start_time_utc, t) ==
    IF ~truthy_time(start_time_utc) THEN None
    ELSE IF parse_datetime(start_time_utc).ok
         THEN IF t < parse_datetime(start_time_utc).t
              THEN LET delta == parse_datetime(start_time_utc).t - t
                   IN  IF delta_days(delta) > 0
                       THEN Some(in_text(delta_days(delta), "days"))
                       ELSE IF delta_seconds(delta) > 3600
                       THEN Some(in_text(delta_seconds(delta) \div 3600, "hours"))
                       ELSE Some(in_text(delta_seconds(delta) \div 60, "minutes"))
              ELSE Some("Starting soon")
    ELSE None

_calculate_kick_off_in_seconds(start_time_utc, t) ==
    IF ~truthy_time(start_time_utc) THEN None
    ELSE IF parse_datetime(start_time_utc).ok
         THEN Some(parse_datetime(start_time_utc).t - t)
    ELSE None

---------------------------------------------------------------------------
(* CEBLTeamSensor._update_fixture_state                                    *)

\* a fixture-only derivation without the grace period
fixture_state_no_grace(fixture, t) ==
    IF fixture.live = 1 THEN "IN"
    ELSE IF upper(fixture.status) \in COMPLETED_STATUSES /\ parse_datetime(fixture.start).ok
            /\ t > parse_datetime(fixture.start).t THEN "POST"
    ELSE "PRE"

fixture_state(fixture, t) ==
    LET start_time_utc == parse_datetime(fixture.start)
        game_status == upper(fixture.status)
        is_live_from_api == (fixture.live = 1)
    IN  IF is_live_from_api THEN "IN"
        ELSE IF game_status \in COMPLETED_STATUSES /\ start_time_utc.ok
                /\ t > start_time_utc.t + GRACE_SECONDS THEN "POST"
        ELSE IF start_time_utc.ok /\ t < start_time_utc.t THEN "PRE"
        ELSE "PRE"

_update_fixture_state(s, fixture, t) ==
    LET start_time_utc == parse_datetime(fixture.start)
        is_home_team == (fixture.home = s.team_id)
        st == fixture_state(fixture, t)
        live == (fixture.live = 1)
        team_score == IF is_home_team THEN _safe_score(fixture.hscore)
                      ELSE _safe_score(fixture.ascore)
        opponent_score == IF is_home_team THEN _safe_score(fixture.ascore)
                          ELSE _safe_score(fixture.hscore)
    IN  IF start_time_utc.raised
        THEN [s EXCEPT !.raised = TRUE]
        ELSE [s EXCEPT
                !.state = st,
                !.is_live_game = live,
                !.attrs =
                    [team_id |-> s.team_id,
                     team_name |-> IF is_home_team THEN fixture.hname ELSE fixture.aname,
                     team_score |-> team_score,
                     opponent_name |-> IF is_home_team THEN fixture.aname ELSE fixture.hname,
                     opponent_score |-> opponent_score,
                     home_away |-> IF is_home_team THEN "home" ELSE "away",
                     status |-> fixture.status,
                     game_status |-> st,
                     is_live |-> live,
                     is_final |-> (st = "POST"),
                     score_difference |-> Abs(team_score - opponent_score),
                     update_frequency |-> IF live THEN "30 seconds" ELSE "1 minute",
                     data_source |-> "fixture_only",
                     fixture_status |-> upper(fixture.status),
                     api_live_field |-> live,
                     kick_off_in_friendly |-> _calculate_time_until_game(fixture.start, t),
                     hours_since_game |->
                        _calculate_hours_since_game(fixture.start, upper(fixture.status), t)]]

---------------------------------------------------------------------------
(* CEBLTeamSensor._update_time_sensitive_attributes                        *)

\* self._attributes.get(key)
attr_get(attrs, key) == IF key \in DOMAIN attrs THEN attrs[key] ELSE None

\* "if self._attributes.get(key) != value: self._attributes[key] = value"
attr_refresh(attrs, key, value) ==
    IF attr_get(attrs, key) # value
    THEN [k \in (DOMAIN attrs) \cup {key} |-> IF k = key THEN value ELSE attrs[k]]
    ELSE attrs

\* of the time-sensitive attributes the view keeps kick_off_in_friendly and
\* hours_since_game; kick_off_in and time_until_game are not among the
\* attributes of the model
_update_time_sensitive_attributes(s, t) ==
    IF IsSome(s.cur)
    THEN LET start_time_utc == Get(s.cur).start
             friendly == attr_refresh(s.attrs, "kick_off_in_friendly",
                        _calculate_time_until_game(start_time_utc, t))
         IN  [s EXCEPT !.attrs =
                IF s.state = "POST"
                THEN attr_refresh(friendly, "hours_since_game",
                        _calculate_hours_since_game(start_time_utc,
                                                    upper(Get(s.cur).status), t))
                ELSE friendly]
    ELSE s

---------------------------------------------------------------------------
(* CEBLTeamSensor._update_live_game_state                                  *)

is_numeric(part) == part \in {"00", "05", "10", "30"}
int_of(part) == CASE part = "05" -> 5 [] part = "10" -> 10 [] part = "30" -> 30 [] OTHER -> 0

\* a clock parse that takes a clock it cannot read for a stopped one
is_clock_running_strict(clock_str) ==
    IF Len(clock_str) >= 2
    THEN IF is_numeric(clock_str[1]) /\ is_numeric(clock_str[2])
         THEN int_of(clock_str[1]) > 0 \/ int_of(clock_str[2]) > 0
         ELSE FALSE
    ELSE FALSE

\* the clock parse of the team1_*/team2_* and tm branches: ':' must be in the
\* string, the first two parts must convert, anything else counts as running
is_clock_running(clock_str) ==
    IF Len(clock_str) >= 2
    THEN IF is_numeric(clock_str[1]) /\ is_numeric(clock_str[2])
         THEN int_of(clock_str[1]) > 0 \/ int_of(clock_str[2]) > 0
         ELSE TRUE
    ELSE TRUE

\* an embedded-fixture derivation that takes every snapshot for a live game
live_state_fixture_shape_always_live(game_data) == "IN"

\* state of the embedded-fixture shape (homeTeam/awayTeam, optional live key)
live_state_fixture_shape(game_data) ==
    IF game_data.has_live /\ game_data.live = 1 THEN "IN"
    ELSE IF upper(game_data.status) \in COMPLETED_STATUSES THEN "POST"
    ELSE "IN"

\* a team1_*/team2_* derivation that ends the game without asking for overtime
live_state_team1_shape_no_ot(game_data) ==
    IF game_data.period >= FINAL_PERIOD /\ ~is_clock_running(game_data.clock) THEN "POST"
    ELSE IF game_data.period > 0 \/ game_data.in_ot # 0 THEN "IN"
    ELSE "PRE"

\* state of the team1_*/team2_* shape
live_state_team1_shape(game_data) ==
    IF game_data.period >= FINAL_PERIOD /\ ~is_clock_running(game_data.clock)
       /\ game_data.in_ot = 0 THEN "POST"
    ELSE IF game_data.period > 0 \/ game_data.in_ot # 0 THEN "IN"
    ELSE "PRE"

\* state of the tm list shape
live_state_tm_shape(game_data) ==
    IF game_data.period >= FINAL_PERIOD /\ ~is_clock_running(game_data.clock)
       /\ game_data.period_type = "REGULAR" THEN "POST"
    ELSE IF game_data.period > 0 THEN "IN"
    ELSE "PRE"

live_state(game_data) ==
    CASE game_data.shape = "fixture" -> live_state_fixture_shape(game_data)
      [] game_data.shape = "team1" -> live_state_team1_shape(game_data)
      [] game_data.shape = "tm" -> live_state_tm_shape(game_data)
      [] OTHER -> "IN"

\* which side of a team1_*/team2_* snapshot is the tracked team: decided by
\* the names of the fixture _get_team_fixture selects
our_team_name(fixture, team, default) ==
    IF IsSome(fixture)
    THEN IF team = Get(fixture).home THEN Get(fixture).hname
         ELSE IF team = Get(fixture).away THEN Get(fixture).aname
         ELSE default
    ELSE default

our_team_is_team1(game_data, d, team, t) ==
    our_team_name(_get_team_fixture(d, team, t), team, game_data.team1_name)
        = game_data.team1_name

\* whether the tracked team is the first side of the snapshot
our_team_first(game_data, d, team, t) ==
    CASE game_data.shape = "fixture" -> (game_data.home = team)
      [] game_data.shape = "team1" -> our_team_is_team1(game_data, d, team, t)
      [] game_data.shape = "tm" -> (game_data.home = team)
      [] OTHER -> TRUE

\* game_info: the scores, clock and period read from the snapshot
game_info(game_data, first) ==
    LET recognised == game_data.shape \in {"fixture", "team1", "tm"}
        s1 == IF recognised THEN _safe_score(game_data.team1_score) ELSE 0
        s2 == IF recognised THEN _safe_score(game_data.team2_score) ELSE 0
    IN  [team_score |-> IF first THEN s1 ELSE s2,
         opponent_score |-> IF first THEN s2 ELSE s1,
         clock |-> IF recognised THEN game_data.clock ELSE <<"00", "00", "00">>,
         period |-> IF recognised THEN game_data.period ELSE 0,
         period_type |-> IF recognised THEN game_data.period_type ELSE "UNKNOWN",
         is_live_api |-> IF game_data.shape = "fixture"
                         THEN (IF game_data.has_live /\ game_data.live = 1
                               THEN "True" ELSE "False")
                         ELSE "None"]

\* the state and the attributes set from game_info
live_view(s, info, st) ==
    [s EXCEPT
        !.state = st,
        !.is_live_game = (st = "IN"),
        !.attrs = dict_update(s.attrs,
            [team_score |-> info.team_score,
             opponent_score |-> info.opponent_score,
             game_clock |-> info.clock,
             period |-> info.period,
             period_type |-> info.period_type,
             game_status |-> st,
             is_live |-> (st = "IN"),
             score_difference |-> Abs(info.team_score - info.opponent_score),
             update_frequency |-> "30 seconds",
             data_source |-> "live_data",
             api_live_indicator |-> info.is_live_api])]

\* int(game_data.get('period', 0)) raises on a null period; the handler's
\* "except Exception" then leaves state and attributes untouched
_update_live_game_state(s, game_data, d, t) ==
    IF game_data.shape \in {"fixture", "team1", "tm"} /\ ~game_data.period_ok
    THEN s
    ELSE
    live_view(s, game_info(game_data, our_team_first(game_data, d, s.team_id, t)),
              live_state(game_data))

---------------------------------------------------------------------------
(* CEBLTeamSensor._update_state                                            *)

\* a level-triggered management: a timer is registered on every live update
manage_live_updates_level(s, was_live) ==
    IF s.is_live_game
    THEN [s EXCEPT !.timers = s.timers + 1, !.remover = TRUE]
    ELSE IF was_live THEN _remove_live_updates(s)
    ELSE s

\* a management that calls _setup_live_updates on every live update
manage_live_updates_always_setup(s, was_live) ==
    IF s.is_live_game THEN _setup_live_updates(s)
    ELSE IF was_live THEN _remove_live_updates(s)
    ELSE s

\* the edge-triggered management of the 30-second timer
manage_live_updates(s, was_live) ==
    IF s.is_live_game /\ ~was_live THEN _setup_live_updates(s)
    ELSE IF ~s.is_live_game /\ was_live THEN _remove_live_updates(s)
    ELSE s

\* the branch taken on (live_data, current_fixture): the view before the
\* timer management
\* live data was found for the team
view_with_live_data(s, live_data, current_fixture, d, t) ==
    IF _is_live_data_current(live_data, current_fixture, t)
    THEN _update_live_game_state(
            [s EXCEPT !.cur = Some(current_fixture), !.is_live_game = TRUE],
            live_data, d, t)
    ELSE _update_fixture_state(
            [s EXCEPT !.cur = Some(current_fixture), !.is_live_game = FALSE],
            current_fixture, t)

\* a sentinel branch that leaves _is_live_game as it was
view_without_live_data_keeps_live(s, fixture, t) ==
    IF IsSome(fixture)
    THEN _update_fixture_state([s EXCEPT !.cur = fixture], Get(fixture), t)
    ELSE [s EXCEPT !.cur = fixture,
                   !.state = "No upcoming game",
                   !.attrs = [team_id |-> s.team_id]]

\* no live data: the fixture _get_team_fixture selects, if any
view_without_live_data(s, fixture, t) ==
    IF IsSome(fixture)
    THEN _update_fixture_state([s EXCEPT !.cur = fixture], Get(fixture), t)
    ELSE [s EXCEPT !.cur = fixture,
                   !.is_live_game = FALSE,
                   !.state = "No upcoming game",
                   !.attrs = [team_id |-> s.team_id]]

view_of(s, found, d, t) ==
    IF IsSome(found)
    THEN view_with_live_data(s, Get(found).live_data, Get(found).fixture, d, t)
    ELSE view_without_live_data(s, _get_team_fixture(d, s.team_id, t), t)

derive_view(s, d, t) == view_of(s, _get_team_live_data(d, s.team_id), d, t)

\* an exception raised inside _update_state leaves the timer as it was
after_view(s1, was_live) ==
    IF s1.raised THEN s1 ELSE manage_live_updates(s1, was_live)

_update_state(s, d, t) ==
    after_view(derive_view([s EXCEPT !.raised = FALSE, !.updated = TRUE], d, t),
               s.is_live_game)

---------------------------------------------------------------------------
(* CEBLDataUpdateCoordinator._async_update_data                            *)

\* A game of the endpoint's array is a record of the JSON fields the code
\* reads.  A field of either schema is an Option (None: absent or null):
\* id / matchId, home_team_id / hometeamId, away_team_id / awayteamId (JSON
\* numbers), live (None: a value int() rejects).  form is "dict" for a JSON
\* object and "other" for any other element; stats_url.kind is "cebl" for a
\* URL with "/u/CEBL/<match_id>/", "plain" for another string, "null" for null.

\* Python's "a or b" on two optional numbers: a unless it is absent or 0
py_or(a, b) == IF IsSome(a) /\ Get(a) # 0 THEN a ELSE b

\* str() of the chosen id: the decimal digits; "" when neither field is there
str_id(v) == IF IsSome(v) THEN ToString(Get(v)) ELSE ""

home_team_id(game) == str_id(py_or(game.home_team_id, game.hometeamId))
away_team_id(game) == str_id(py_or(game.away_team_id, game.awayteamId))

\* the key game.get("id") of the match id map when the game has no "id"
NONE_ID == 0

\* a selection that reads the old schema's field names only
is_selected_old_schema(game) ==
    \/ str_id(game.home_team_id) \in TrackedTeams
    \/ str_id(game.away_team_id) \in TrackedTeams

\* home_team_id in self.teams or away_team_id in self.teams
is_selected(game) ==
    home_team_id(game) \in TrackedTeams \/ away_team_id(game) \in TrackedTeams

\* the game reaches fixtures.append: it is a dict (game.get exists), it is
\* selected and int(game.get("live", 0)) does not raise
is_appended(game) ==
    /\ game.form = "dict"
    /\ is_selected(game)
    /\ IsSome(game.live)

\* one game of the endpoint's array, converted to the fixture format
\* (the inputs carry "id" or "matchId", so the fixture's id is a number)
to_fixture(game) ==
    [id |-> Get(py_or(game.id, game.matchId)),
     home |-> home_team_id(game), away |-> away_team_id(game),
     hname |-> game.hname, aname |-> game.aname,
     hscore |-> game.hscore, ascore |-> game.ascore,
     status |-> game.status, start |-> game.start, live |-> Get(game.live)]

\* self.match_ids[game_id] = match_id on an ordered dict: an existing key
\* keeps its place, a new key goes last
dict_set(ids, game_id, match_id) ==
    IF \E i \in 1..Len(ids) : ids[i].game_id = game_id
    THEN [i \in 1..Len(ids) |->
            IF ids[i].game_id = game_id
            THEN [game_id |-> game_id, match_id |-> match_id] ELSE ids[i]]
    ELSE Append(ids, [game_id |-> game_id, match_id |-> match_id])

\* a loop over the games in which one failing game empties the result
filter_games_all_or_nothing(games) ==
    IF \E i \in 1..Len(games) :
            games[i].form # "dict" \/ (is_selected(games[i]) /\ ~IsSome(games[i].live))
    THEN <<>>
    ELSE SelectSeq(games, is_appended)

\* the games of a response that are appended, in endpoint order; a game whose
\* processing raises before the append is skipped by "except Exception: continue"
filter_games(games) == SelectSeq(games, is_appended)

\* the match ids extracted from the stats URLs of the appended games; a null
\* stats URL raises after the append and is skipped as well
RECURSIVE extract_match_ids(_, _)
extract_match_ids(ids, kept) ==
    IF kept = <<>> THEN ids
    ELSE LET g == Head(kept)
             key == IF IsSome(g.id) THEN Get(g.id) ELSE NONE_ID
             ids1 == IF g.stats_url.kind = "cebl"
                     THEN dict_set(ids, key, g.stats_url.match_id) ELSE ids
         IN  extract_match_ids(ids1, Tail(kept))

\* a fetch without degradation: whatever is not a 200 array is a failure
fetch_outcome_strict(resp) ==
    IF resp.exc = "none" /\ resp.status = 200 /\ resp.body = "array"
    THEN "fixtures" ELSE "failed"

\* What the request and the body give before any game is looked at.
\* resp.exc: "none", "timeout" (asyncio.TimeoutError), "client_network" (a
\* ClientError whose text has "timeout" or "connection"), "client_other" (any
\* other ClientError); resp.status; resp.body: "array", "object" (JSON that is
\* no list), "undecodable" (json() raises ValueError).
\* UpdateFailed raised for a status inside the try block is no ClientError and
\* no TimeoutError: "except Exception" catches it and returns no fixtures.
fetch_outcome(resp) ==
    IF resp.exc = "timeout" \/ resp.exc = "client_network" THEN "empty"
    ELSE IF resp.exc = "client_other" THEN "failed"
    ELSE IF resp.status # 200 THEN "empty"
    ELSE IF resp.body # "array" THEN "empty"
    ELSE "fixtures"

fetched(outcome, games, ids) ==
    IF outcome = "failed"
    THEN [failed |-> TRUE, data |-> NoData, match_ids |-> ids]
    ELSE IF outcome = "empty"
    THEN [failed |-> FALSE, data |-> Data(<<>>, <<>>), match_ids |-> ids]
    ELSE [failed |-> FALSE,
          data |-> Data([i \in 1..Len(games) |-> to_fixture(games[i])], <<>>),
          match_ids |-> extract_match_ids(ids, games)]

\* result: [failed, data, match_ids]; failed is UpdateFailed raised to the
\* DataUpdateCoordinator
_async_update_data(resp, ids) ==
    fetched(fetch_outcome(resp), filter_games(resp.games), ids)

\* DataUpdateCoordinator.async_update_listeners: every sensor that was added
\* to hass runs _update_state on the coordinator's data
notify(ss, d, t) ==
    [team \in TrackedTeams |->
        IF ss[team].added THEN _update_state(ss[team], d, t) ELSE ss[team]]

\* a refresh of the coordinator (the 10-minute interval, or a requested one):
\* self.data is replaced by what _async_update_data returns, a failed update
\* keeps the old data; the listeners are told either way
publish(d, ids) ==
    /\ data' = d
    /\ match_ids' = ids
    /\ sensors' = notify(sensors, d, now)

refreshed(r) == publish(IF r.failed THEN data ELSE r.data, r.match_ids)

refresh(resp) == refreshed(_async_update_data(resp, match_ids))

---------------------------------------------------------------------------
(* CEBLDataUpdateCoordinator.async_update_live_scores                      *)

NoPoll ==
    [active |-> FALSE, current_fixtures |-> <<>>, idx |-> 1, size |-> 0,
     live_scores_data |-> <<>>, gated |-> <<>>, raised |-> FALSE]

\* a gate whose window around the scheduled start is 20 minutes
should_fetch_live_wide(fixture, t) ==
    IF upper(fixture.status) \in GATE_LIVE_STATUSES THEN TRUE
    ELSE IF upper(fixture.status) \in GATE_COMPLETED_STATUSES /\ truthy_time(fixture.start)
    THEN parse_start_fromiso(fixture.start).ok
         /\ 0 <= t - parse_start_fromiso(fixture.start).t
         /\ t - parse_start_fromiso(fixture.start).t <= Hours(FINAL_STATS_HOURS)
    ELSE IF upper(fixture.status) = "SCHEDULED" /\ truthy_time(fixture.start)
    THEN parse_start_fromiso(fixture.start).ok
         /\ Abs(parse_start_fromiso(fixture.start).t - t) <= Minutes(20)
    ELSE FALSE

\* should_fetch_live for the fixture found for a match
should_fetch_live(fixture, t) ==
    LET fixture_status == upper(fixture.status)
        start_time_utc == fixture.start
        fixture_dt == parse_start_fromiso(start_time_utc)
    IN  IF fixture_status \in GATE_LIVE_STATUSES THEN TRUE
        ELSE IF fixture_status \in GATE_COMPLETED_STATUSES /\ truthy_time(start_time_utc)
        THEN fixture_dt.ok /\ 0 <= t - fixture_dt.t
             /\ t - fixture_dt.t <= Hours(FINAL_STATS_HOURS)
        ELSE IF fixture_status = "SCHEDULED" /\ truthy_time(start_time_utc)
        THEN fixture_dt.ok /\ -FETCH_WINDOW <= fixture_dt.t - t
             /\ fixture_dt.t - t <= FETCH_WINDOW
        ELSE FALSE

\* the live_scores entry built from a decoded payload: the team1_*/team2_*
\* fields; the payload's own live field is not copied
normalize(payload, match_id) ==
    [shape |-> "team1", has_live |-> FALSE, live |-> 0, status |-> "",
     home |-> "",
     team1_name |-> payload.tm1_name, team2_name |-> payload.tm2_name,
     team1_score |-> payload.tm1_score, team2_score |-> payload.tm2_score,
     clock |-> payload.clock, period |-> payload.period,
     period_ok |-> payload.period_ok, period_type |-> payload.periodType,
     in_ot |-> payload.inOT, match_id |-> match_id]

\* live_scores_data[game_id] = entry, on an ordered dict
scores_set(scores, game_id, snap) ==
    IF \E i \in 1..Len(scores) : scores[i].game_id = game_id
    THEN [i \in 1..Len(scores) |->
            IF scores[i].game_id = game_id
            THEN [game_id |-> game_id, snap |-> snap] ELSE scores[i]]
    ELSE Append(scores, [game_id |-> game_id, snap |-> snap])

\* the poll is entered: no match ids, nothing happens; otherwise the current
\* fixtures are read once and the iteration over match_ids begins
PollStart ==
    /\ ~poll.active
    /\ poll' = IF match_ids = <<>> THEN NoPoll
               ELSE [NoPoll EXCEPT !.active = TRUE,
                                   !.current_fixtures = data.fixtures,
                                   !.size = Len(match_ids)]
    /\ UNCHANGED <<now, data, match_ids, sensors, ticks, response>>

\* one iteration of the loop over match_ids: gating, and for a gated-in match
\* the HTTP request with its outcome.  A dict that grew while the poll was
\* suspended ends the iteration with RuntimeError; the key None meets
\* int(game_id) at the first fixture it is compared with and raises TypeError.
\* Neither is inside a try block: the poll ends there.
PollStep(outcome) ==
    /\ poll.active
    /\ poll.idx <= poll.size
    /\ IF Len(match_ids) # poll.size
       THEN poll' = [poll EXCEPT !.active = FALSE, !.raised = TRUE]
       ELSE IF match_ids[poll.idx].game_id = NONE_ID /\ poll.current_fixtures # <<>>
       THEN poll' = [poll EXCEPT !.active = FALSE, !.raised = TRUE]
       ELSE LET entry == match_ids[poll.idx]
                fixture == fixture_by_id(poll.current_fixtures, entry.game_id)
                fetch == IsSome(fixture) /\ should_fetch_live(Get(fixture), now)
                got == fetch /\ outcome.kind = "payload"
            IN  poll' = [poll EXCEPT
                    !.idx = poll.idx + 1,
                    !.gated = Append(poll.gated,
                                [game_id |-> entry.game_id,
                                 match_id |-> entry.match_id,
                                 requested |-> fetch, at |-> now,
                                 payload_live |-> IF got THEN Some(outcome.payload.live)
                                                  ELSE None]),
                    !.live_scores_data =
                        IF got
                        THEN scores_set(poll.live_scores_data, entry.game_id,
                                        normalize(outcome.payload, entry.match_id))
                        ELSE poll.live_scores_data]
    /\ UNCHANGED <<now, data, match_ids, sensors, ticks, response>>

\* an end of the poll that stores and announces an empty result as well
PollFinish_publishes_empty ==
    /\ poll.active
    /\ poll.idx > poll.size
    /\ poll' = [poll EXCEPT !.active = FALSE,
                            !.raised = (Len(match_ids) # poll.size)]
    /\ IF Len(match_ids) = poll.size
       THEN LET d == [data EXCEPT !.present = TRUE,
                                  !.live_scores = poll.live_scores_data]
            IN  /\ data' = d
                /\ sensors' = notify(sensors, d, now)
       ELSE UNCHANGED <<data, sensors>>
    /\ UNCHANGED <<now, match_ids, ticks, response>>

\* the loop is over: a non-empty result is stored under "live_scores" in the
\* data current at that moment and the listeners are told
PollFinish ==
    /\ poll.active
    /\ poll.idx > poll.size
    /\ poll' = [poll EXCEPT !.active = FALSE,
                            !.raised = (Len(match_ids) # poll.size)]
    /\ IF Len(match_ids) = poll.size /\ poll.live_scores_data # <<>>
       THEN LET d == [data EXCEPT !.present = TRUE,
                                  !.live_scores = poll.live_scores_data]
            IN  /\ data' = d
                /\ sensors' = notify(sensors, d, now)
       ELSE UNCHANGED <<data, sensors>>
    /\ UNCHANGED <<now, match_ids, ticks, response>>

---------------------------------------------------------------------------
(* Sensor handlers                                                         *)

\* async_added_to_hass: the sensor becomes a listener and runs _update_state
AddSensor(team) ==
    /\ data.present
    /\ ~sensors[team].added
    /\ ~sensors[team].removed
    /\ sensors' = [sensors EXCEPT
            ![team] = _update_state([sensors[team] EXCEPT !.added = TRUE], data, now)]
    /\ UNCHANGED <<now, data, match_ids, poll, ticks, response>>

\* the listener callback of one sensor: _update_state on the current data
UpdateState(team) ==
    /\ sensors' = [sensors EXCEPT
            ![team] = _update_state([sensors[team] EXCEPT !.added = TRUE], data, now)]
    /\ UNCHANGED <<now, data, match_ids, poll, ticks, response>>

\* _async_time_update: the sensor's one-minute callback, registered when the
\* sensor is added
TimeUpdate(team) ==
    /\ sensors[team].added
    /\ sensors' = [sensors EXCEPT
            ![team] = _update_time_sensitive_attributes(sensors[team], now)]
    /\ UNCHANGED <<now, data, match_ids, poll, ticks, response>>

\* _async_live_update: the sensor's 30-second callback asks for a refresh
\* while the sensor judges its game live
LiveUpdate(team, resp) ==
    /\ sensors[team].timers > 0
    /\ sensors[team].is_live_game
    /\ refresh(resp)
    /\ UNCHANGED <<now, poll, ticks, response>>

\* the coordinator's own refresh (first refresh, then every 10 minutes)
FixtureRefresh(resp) ==
    /\ refresh(resp)
    /\ UNCHANGED <<now, poll, ticks, response>>

\* the entity is removed from Home Assistant
RemoveSensor(team) ==
    /\ sensors[team].added
    /\ sensors' = [sensors EXCEPT ![team] = async_will_remove_from_hass(sensors[team])]
    /\ UNCHANGED <<now, data, match_ids, poll, ticks, response>>

\* async_set_updated_data: the coordinator's data is replaced and every
\* listener is told
SetUpdatedData(d) ==
    /\ publish(d, match_ids)
    /\ UNCHANGED <<now, poll, ticks, response>>

\* time passes
Tick(d) ==
    /\ ticks < MaxTicks
    /\ now' = now + d
    /\ ticks' = ticks + 1
    /\ UNCHANGED <<data, match_ids, poll, sensors, response>>

---------------------------------------------------------------------------
(* Inputs                                                                  *)

Fx(id, home, away, status, start, live) ==
    [id |-> id, home |-> home, away |-> away,
     hname |-> TeamName(home), aname |-> TeamName(away),
     hscore |-> Some(0), ascore |-> Some(0),
     status |-> status, start |-> start, live |-> live]

TeamNo(t) == CASE t = "1" -> 1 [] t = "2" -> 2 [] t = "3" -> 3 [] OTHER -> 4

\* a game in the old schema (id, home_team_id, away_team_id, stats_url_en)
Game(id, home, away, status, start, live, match) ==
    [form |-> "dict", id |-> Some(id), matchId |-> None,
     home_team_id |-> Some(TeamNo(home)), hometeamId |-> None,
     away_team_id |-> Some(TeamNo(away)), awayteamId |-> None,
     hname |-> TeamName(home), aname |-> TeamName(away),
     hscore |-> Some(0), ascore |-> Some(0),
     status |-> status, start |-> start, live |-> Some(live),
     stats_url |-> IF IsSome(match) THEN [kind |-> "cebl", match_id |-> Get(match)]
                   ELSE [kind |-> "plain", match_id |-> ""]]

\* the same game in the new schema (matchId, hometeamId, awayteamId)
NewSchema(game) ==
    [game EXCEPT !.id = None, !.matchId = game.id,
                 !.home_team_id = None, !.hometeamId = game.home_team_id,
                 !.away_team_id = None, !.awayteamId = game.away_team_id]

\* an answer of the fixtures endpoint
Ok(games) == [exc |-> "none", status |-> 200, body |-> "array", games |-> games]
Status(code) == [exc |-> "none", status |-> code, body |-> "object", games |-> <<>>]
Body(kind) == [exc |-> "none", status |-> 200, body |-> kind, games |-> <<>>]
Exc(kind) == [exc |-> kind, status |-> 200, body |-> "array", games |-> <<>>]

Snap(shape, has_live, live, status, clock, period, period_ok, period_type, in_ot) ==
    [shape |-> shape, has_live |-> has_live, live |-> live, status |-> status,
     home |-> "1",
     team1_name |-> TeamName("1"), team2_name |-> TeamName("2"),
     team1_score |-> Some(7), team2_score |-> Some(5),
     clock |-> clock, period |-> period, period_ok |-> period_ok,
     period_type |-> period_type, in_ot |-> in_ot, match_id |-> "m42"]

Payload(clock, period, period_ok, inOT, live) ==
    [tm1_name |-> TeamName("1"), tm2_name |-> TeamName("2"),
     tm1_score |-> Some(7), tm2_score |-> Some(5),
     clock |-> clock, period |-> period, period_ok |-> period_ok,
     periodType |-> "REGULAR", inOT |-> inOT, live |-> live]

Clocks ==
    { <<"00", "00">>, <<"10", "00">>, <<"">>, <<"abc">>, <<"xx", "yy">>,
      <<"00", "00", "30">> }
UnparsableClocks == { <<"">>, <<"abc">>, <<"xx", "yy">> }
Periods == {0, 2, 4, 5}

\* the fixtures the selection is exercised on (position i gets id i)
SelectShapes ==
    { [home |-> "1", away |-> "2", status |-> "SCHEDULED", start |-> tm] :
        tm \in { Time("iso", -Hours(13)), Time("iso", Hours(2)), Time("iso", Days(3)),
                 Time("iso", Days(10)), Time("empty", 0), Time("space", Hours(2)) } }
    \cup
    { [home |-> "1", away |-> "2", status |-> "COMPLETE", start |-> tm] :
        tm \in { Time("iso", -Hours(25)), Time("iso", -Hours(24)), Time("iso", -Hours(13)),
                 Time("empty", 0) } }
    \cup
    { [home |-> "1", away |-> "2", status |-> "Final", start |-> Time("iso", -Hours(13))],
      [home |-> "1", away |-> "2", status |-> "LIVE", start |-> Time("iso", -Hours(25))],
      [home |-> "3", away |-> "2", status |-> "SCHEDULED", start |-> Time("iso", Hours(2))] }

SelectLists ==
    UNION { { [i \in 1..n |-> Fx(i, c[i].home, c[i].away, c[i].status, c[i].start, 0)] :
                c \in [1..n -> SelectShapes] } : n \in 0..MaxFixtures }

\* the fixture a snapshot is paired with
PairedFixtures ==
    { Fx(1, side[1], side[2], st, tm, lv) :
        side \in { <<"1", "2">>, <<"2", "1">> },
        st \in {"SCHEDULED", "scheduled", "LIVE", "COMPLETE", "IN"},
        tm \in { Time("iso", -Hours(13)), Time("iso", -Minutes(30)),
                 Time("iso", Minutes(10)), Time("iso", Hours(2)),
                 Time("space", Hours(2)), Time("empty", 0), Time("garbage", 0),
                 Time("invalid", 0) },
        lv \in {0, 1} }

Snapshots ==
    { Snap("team1", FALSE, 0, "", c, p, TRUE, "", ot) :
        c \in Clocks, p \in Periods, ot \in {0, 1} }
    \cup { Snap("team1", FALSE, 0, "", <<"10", "00">>, 0, FALSE, "", 0) }
    \cup { Snap("tm", FALSE, 0, "", c, p, TRUE, pt, 0) :
        c \in Clocks, p \in Periods, pt \in {"REGULAR", "OVERTIME"} }
    \cup { Snap("fixture", hl[1], hl[2], st, <<"10", "00">>, p, TRUE, "REGULAR", 0) :
        hl \in { <<FALSE, 0>>, <<TRUE, 0>>, <<TRUE, 1>> },
        st \in {"", "FINAL", "Final", "COMPLETED"}, p \in {0, 4} }
    \cup { Snap("unknown", FALSE, 0, "", <<"">>, 0, TRUE, "", 0) }

\* a second game of team 1 next to the game a snapshot was fetched for; the
\* fixtures endpoint may name the team differently from game to game
OtherGames ==
    { Fx(2, "3", "1", "LIVE", Time("iso", -Minutes(30)), 1),
      [Fx(2, "3", "1", "LIVE", Time("iso", -Minutes(30)), 1)
            EXCEPT !.aname = "Edmonton Stingers"],
      Fx(2, "1", "3", "SCHEDULED", Time("iso", Days(3)), 0) }

TwoGameData ==
    { Data(<<Fx(1, side[1], side[2], "SCHEDULED", Time("iso", Minutes(10)), 0), g>>,
           << [game_id |-> 1, snap |-> sn] >>) :
        side \in { <<"1", "2">>, <<"2", "1">> },
        g \in OtherGames,
        sn \in { Snap("team1", FALSE, 0, "", <<"10", "00">>, 2, TRUE, "", 0),
                 Snap("tm", FALSE, 0, "", <<"10", "00">>, 2, TRUE, "REGULAR", 0) } }

\* the name the fixtures endpoint gives a team when it differs from the name
\* in the live statistics
LongName(team) == IF team = "1" THEN "Edmonton Stingers" ELSE "Ottawa Blackjacks"

\* a live game of the two tracked teams whose fixture names both teams
\* differently from its snapshot
RenamedData ==
    { Data(<< [Fx(1, side[1], side[2], "LIVE", Time("iso", -Minutes(30)), 1)
                  EXCEPT !.hname = LongName(side[1]), !.aname = LongName(side[2])] >>,
           << [game_id |-> 1,
               snap |-> Snap("team1", FALSE, 0, "", <<"10", "00">>, 2, TRUE, "", 0)] >>) :
        side \in { <<"1", "2">>, <<"2", "1">> } }

ViewData ==
    { Data(fl, <<>>) : fl \in SelectLists }
    \cup { Data(<<f>>, <<>>) : f \in PairedFixtures }
    \cup { Data(<<f>>, << [game_id |-> 1, snap |-> sn] >>) :
            f \in PairedFixtures, sn \in Snapshots }
    \cup TwoGameData
    \cup RenamedData

---------------------------------------------------------------------------
(* SpecView: _update_state applied to coordinator data drawn from the       *)
(* inputs above, at time 0                                                 *)

InitView ==
    /\ now = 0
    /\ data \in ViewData
    /\ match_ids = <<>>
    /\ poll = NoPoll
    /\ sensors = [team \in TrackedTeams |-> NewSensor(team)]
    /\ ticks = 0
    /\ response = None

NextView == \E team \in TrackedTeams : UpdateState(team)

SpecView == InitView /\ [][NextView]_vars

---------------------------------------------------------------------------
(* What the live endpoint can answer to one request                        *)

HttpFailures ==
    { [kind |-> k] : k \in {"non200", "timeout"} }

\* tip-off pending, second quarter, final buzzer
Payloads ==
    { Payload(<<"10", "00">>, 0, TRUE, 0, 1),
      Payload(<<"05", "00">>, 2, TRUE, 0, 1),
      Payload(<<"00", "00">>, 4, TRUE, 0, 0) }

HttpOutcomes == HttpFailures \cup { [kind |-> "payload", payload |-> pl] : pl \in Payloads }

MatchId(i) == CASE i = 1 -> "m42" [] i = 2 -> "m7" [] OTHER -> "m9"

---------------------------------------------------------------------------
(* SpecPoll: async_update_live_scores applied to fixture lists and match   *)
(* id maps drawn from the inputs below, at time 0                          *)

GateShapes ==
    { [status |-> st, start |-> tm] :
        st \in {"SCHEDULED", "COMPLETE"},
        tm \in { Time("iso", -Hours(25)), Time("iso", -Hours(13)),
                 Time("iso", -Minutes(20)), Time("iso", -Minutes(10)),
                 Time("iso", Minutes(10)), Time("iso", Minutes(20)),
                 Time("iso", Hours(2)), Time("space", Minutes(10)),
                 Time("empty", 0), Time("garbage", 0) } }
    \cup
    { [status |-> st, start |-> tm] :
        st \in {"scheduled", "LIVE", "IN", "HALFTIME", "POST", "Final"},
        tm \in { Time("iso", -Hours(13)), Time("iso", Minutes(10)), Time("garbage", 0) } }

OtherGateShapes ==
    { [status |-> "COMPLETE", start |-> Time("iso", -Hours(13))],
      [status |-> "SCHEDULED", start |-> Time("iso", Days(3))] }

\* the first fixture ranges over GateShapes, the others over OtherGateShapes
GateLists ==
    UNION { { [i \in 1..n |->
                IF i = 1 THEN Fx(1, "1", "2", g.status, g.start, 0)
                ELSE Fx(i, "1", "2", c[i - 1].status, c[i - 1].start, 0)] :
                g \in GateShapes, c \in [1..(n - 1) -> OtherGateShapes] } :
            n \in 1..MaxFixtures }

NumberedIds(n) == [i \in 1..n |-> [game_id |-> i, match_id |-> MatchId(i)]]

\* maps of numbered games, and maps whose first key is None (a game without
\* "id" whose stats URL gave a match id)
MatchIdMaps ==
    { NumberedIds(n) : n \in 0..MaxFixtures }
    \cup { <<[game_id |-> NONE_ID, match_id |-> "m9"]>> \o NumberedIds(n) :
                n \in 0..(MaxFixtures - 1) }

InitPoll ==
    /\ now = 0
    /\ data \in { Data(fl, <<>>) : fl \in GateLists }
    /\ match_ids \in MatchIdMaps
    /\ poll = NoPoll
    /\ sensors = [team \in TrackedTeams |-> NewSensor(team)]
    /\ ticks = 0
    /\ response = None

NextPoll ==
    \/ PollStart
    \/ \E outcome \in HttpOutcomes : PollStep(outcome)
    \/ PollFinish

SpecPoll == InitPoll /\ [][NextPoll]_vars

---------------------------------------------------------------------------
(* Spec: the integration after construction.  The fixtures endpoint lists  *)
(* game 1 (team 1 at home to team 2, tip-off at 600 s unless rescheduled)  *)
(* and game 2 (team 1 away, completed 13 hours before time 0).             *)

Game1Variants ==
    { Game(1, "1", "2", "SCHEDULED", Time("iso", Minutes(10)), 0, Some("m42")),
      Game(1, "1", "2", "LIVE", Time("iso", Minutes(10)), 1, Some("m42")) }

Game2 == Game(2, "3", "1", "COMPLETE", Time("iso", -Hours(13)), 0, Some("m7"))

Responses ==
    { Ok(<<g>>) : g \in Game1Variants }
    \cup { Ok(<<Game(1, "1", "2", "SCHEDULED", Time("iso", Minutes(10)), 0, Some("m42")), Game2>>) }
    \cup { Status(503), Exc("client_other") }

TickSteps == { Minutes(10) }

Init ==
    /\ now = 0
    /\ data = NoData
    /\ match_ids = <<>>
    /\ poll = NoPoll
    /\ sensors = [team \in TrackedTeams |-> NewSensor(team)]
    /\ ticks = 0
    /\ response = None

Next ==
    \/ \E resp \in Responses : FixtureRefresh(resp)
    \/ \E team \in TrackedTeams : AddSensor(team)
    \/ \E team \in TrackedTeams, resp \in Responses : LiveUpdate(team, resp)
    \/ PollStart
    \/ \E outcome \in HttpOutcomes : PollStep(outcome)
    \/ PollFinish
    \/ \E d \in TickSteps : Tick(d)

Spec == Init /\ [][Next]_vars

---------------------------------------------------------------------------
(* SpecTime: one fixture whose start lies around the thresholds of the      *)
(* timing calculators; the sensors derive their view and their one-minute  *)
(* callback recomputes the time-sensitive attributes as the clock advances *)

TimeStarts ==
    { Time("iso", tm) :
        tm \in { -Hours(13), -Hours(1), -Minutes(5), 0, 59, Minutes(1), Minutes(11),
                 Hours(1), Hours(1) + 1, Hours(2), Days(1) - 1, Days(1),
                 Days(1) + Hours(1), Days(3) } }
    \cup { Time("space", Hours(2)), Time("empty", 0), Time("garbage", 0),
           Time("invalid", 0), Time("missing", 0) }

TimeData ==
    { Data(<< Fx(1, "1", "2", st, tm, lv) >>, <<>>) :
        st \in {"SCHEDULED", "COMPLETE", "Final"}, tm \in TimeStarts, lv \in {0, 1} }

InitTime ==
    /\ now = 0
    /\ data \in TimeData
    /\ match_ids = <<>>
    /\ poll = NoPoll
    /\ sensors = [team \in TrackedTeams |-> NewSensor(team)]
    /\ ticks = 0
    /\ response = None

NextTime ==
    \/ \E team \in TrackedTeams : UpdateState(team)
    \/ \E team \in TrackedTeams : TimeUpdate(team)
    \/ \E d \in TickSteps : Tick(d)

SpecTime == InitTime /\ [][NextTime]_vars

---------------------------------------------------------------------------
(* SpecLife: the life of the sensors from construction to removal, while   *)
(* the coordinator publishes data in which the game goes live, loses its   *)
(* snapshot, carries a snapshot the handler fails on, or ends              *)

LiveFixture == Fx(1, "1", "2", "LIVE", Time("iso", -Minutes(30)), 1)

LiveSnapshot == Snap("team1", FALSE, 0, "", <<"10", "00">>, 2, TRUE, "", 0)

LifeData ==
    { Data(<<>>, <<>>),
      Data(<<LiveFixture>>, <<>>),
      Data(<<LiveFixture>>, << [game_id |-> 1, snap |-> LiveSnapshot] >>),
      Data(<<LiveFixture>>,
           << [game_id |-> 1,
               snap |-> Snap("team1", FALSE, 0, "", <<"10", "00">>, 0, FALSE, "", 0)] >>),
      Data(<< Fx(1, "1", "2", "SCHEDULED", Time("iso", Hours(2)), 0) >>,
           << [game_id |-> 1, snap |-> LiveSnapshot] >>),
      Data(<< Fx(1, "1", "2", "SCHEDULED", Time("invalid", 0), 0) >>, <<>>),
      Data(<< Fx(1, "1", "2", "COMPLETE", Time("iso", -Hours(13)), 0) >>, <<>>) }

InitLife ==
    /\ now = 0
    /\ data \in LifeData
    /\ match_ids = <<>>
    /\ poll = NoPoll
    /\ sensors = [team \in TrackedTeams |-> NewSensor(team)]
    /\ ticks = 0
    /\ response = None

NextLife ==
    \/ \E team \in TrackedTeams : AddSensor(team)
    \/ \E d \in LifeData : SetUpdatedData(d)
    \/ \E team \in TrackedTeams : RemoveSensor(team)

SpecLife == InitLife /\ [][NextLife]_vars

---------------------------------------------------------------------------
(* SpecRace: the integration from construction when the fixtures endpoint  *)
(* may move the tip-off of game 1 from 10 minutes to 2 hours ahead between *)
(* one answer and the next                                                 *)

RaceResponses ==
    { Ok(<<Game(1, "1", "2", "SCHEDULED", Time("iso", tm), 0, Some("m42"))>>) :
        tm \in { Minutes(10), Hours(2) } }

NextRace ==
    \/ \E resp \in RaceResponses : FixtureRefresh(resp)
    \/ \E team \in TrackedTeams : AddSensor(team)
    \/ PollStart
    \/ \E outcome \in HttpOutcomes : PollStep(outcome)
    \/ PollFinish
    \/ \E d \in TickSteps : Tick(d)

SpecRace == Init /\ [][NextRace]_vars

---------------------------------------------------------------------------
(* SpecFetch: _async_update_data applied to one answer of the fixtures     *)
(* endpoint, drawn from the inputs below, on a fresh coordinator           *)

\* games that are appended: tracked at home or away, in the old schema, the
\* new schema, or with the old field 0 and the new field set; with a stats
\* URL, without one, with a null one
AppendedShapes ==
    { Game(1, "1", "3", "SCHEDULED", Time("iso", Minutes(10)), 0, Some("m42")),
      Game(2, "3", "2", "COMPLETE", Time("iso", -Hours(13)), 0, Some("m7")),
      Game(3, "1", "2", "LIVE", Time("iso", -Minutes(30)), 1, Some("m9")),
      Game(4, "2", "4", "SCHEDULED", Time("iso", Hours(2)), 0, None),
      NewSchema(Game(5, "2", "4", "LIVE", Time("iso", -Minutes(30)), 1, None)),
      NewSchema(Game(6, "4", "1", "SCHEDULED", Time("iso", Hours(2)), 0, None)),
      NewSchema(Game(7, "1", "3", "SCHEDULED", Time("iso", Minutes(10)), 0, Some("m9"))),
      [Game(8, "3", "2", "SCHEDULED", Time("iso", Minutes(10)), 0, None)
            EXCEPT !.away_team_id = Some(0), !.awayteamId = Some(2)],
      [Game(9, "1", "2", "SCHEDULED", Time("iso", Minutes(10)), 0, None)
            EXCEPT !.stats_url = [kind |-> "null", match_id |-> ""]],
      [Game(10, "2", "3", "COMPLETE", Time("iso", -Hours(25)), 0, None)
            EXCEPT !.home_team_id = Some(2), !.hometeamId = Some(3)] }

\* games of two untracked teams (one whose id has a tracked id as a prefix)
UntrackedShapes ==
    { Game(11, "3", "4", "SCHEDULED", Time("iso", Minutes(10)), 0, Some("m11")),
      NewSchema(Game(12, "4", "3", "LIVE", Time("iso", -Minutes(30)), 1, None)),
      [Game(13, "3", "4", "SCHEDULED", Time("iso", Minutes(10)), 0, None)
            EXCEPT !.home_team_id = Some(12), !.live = None] }

\* array elements whose processing raises: not an object; a null "live"
BadShapes ==
    { [Game(14, "1", "2", "SCHEDULED", Time("iso", Minutes(10)), 0, Some("m14"))
            EXCEPT !.form = "other"],
      [Game(15, "2", "1", "LIVE", Time("iso", -Minutes(30)), 1, Some("m15"))
            EXCEPT !.live = None] }

FetchShapes == AppendedShapes \cup UntrackedShapes \cup BadShapes

FetchResponses ==
    { Ok(games) : games \in UNION { [1..n -> FetchShapes] : n \in 0..MaxFixtures } }
    \cup { Status(code) : code \in {404, 500, 502, 503, 504} }
    \cup { Body(kind) : kind \in {"object", "undecodable"} }
    \cup { Exc(kind) : kind \in {"timeout", "client_network", "client_other"} }

InitFetch ==
    /\ now = 0
    /\ data = NoData
    /\ match_ids = <<>>
    /\ poll = NoPoll
    /\ sensors = [team \in TrackedTeams |-> NewSensor(team)]
    /\ ticks = 0
    /\ response \in { Some(resp) : resp \in FetchResponses }

\* async_config_entry_first_refresh: the request is made and answered
FirstRefresh ==
    /\ IsSome(response)
    /\ FixtureRefresh(Get(response))

NextFetch == FirstRefresh

SpecFetch == InitFetch /\ [][NextFetch]_vars

---------------------------------------------------------------------------
(* Vocabulary of the properties                                            *)

\* positions of the team's fixtures in the coordinator's list
TeamIdx(team) ==
    { i \in 1..Len(data.fixtures) :
        data.fixtures[i].home = team \/ data.fixtures[i].away = team }
LiveIdx(team) ==
    { i \in TeamIdx(team) : upper(data.fixtures[i].status) \in SELECT_LIVE_STATUSES }
UpcomingIdx(team) ==
    { i \in TeamIdx(team) : category(data.fixtures[i], now) = "upcoming" }
CompletedIdx(team) ==
    { i \in TeamIdx(team) : category(data.fixtures[i], now) = "completed" }
Min(S) == CHOOSE x \in S : \A y \in S : x <= y
\* the instant a start time denotes for fixture selection, if it parses there
SelStart(i) == data.fixtures[i].start.t
SelParses(i) == data.fixtures[i].start.kind = "iso"
\* earliest upcoming fixture, first in list order among equals
EarliestUpcoming(team) ==
    Min({ i \in UpcomingIdx(team) :
            \A j \in UpcomingIdx(team) : SelStart(i) <= SelStart(j) })
\* most recent completed fixture: the latest parseable start, first in list
\* order among equals; fixtures without a parseable start come last
MostRecentCompleted(team) ==
    LET dated == { i \in CompletedIdx(team) : SelParses(i) }
    IN  IF dated = {} THEN Min(CompletedIdx(team))
        ELSE Min({ i \in dated : \A j \in dated : SelStart(i) >= SelStart(j) })

\* the (snapshot, fixture) pair _update_state works on, and whether the
\* currency check lets the snapshot through
HasPair(team) == IsSome(_get_team_live_data(data, team))
PairSnap(team) == Get(_get_team_live_data(data, team)).live_data
PairFixture(team) == Get(_get_team_live_data(data, team)).fixture
Accepted(team) ==
    HasPair(team) /\ _is_live_data_current(PairSnap(team), PairFixture(team), now)
\* the view of a sensor is the one _update_state derives from the current
\* data at the current time
Fresh(team) == sensors[team].updated

---------------------------------------------------------------------------
(* C1: a team with at least one live-status fixture gets a live-status     *)
(* fixture from _get_team_fixture, the first one in list order, whatever   *)
(* upcoming or completed fixtures it also has.                             *)

C1_LiveFixtureWins ==
    \A team \in TrackedTeams :
        LiveIdx(team) # {} =>
            /\ _get_team_fixture(data, team, now) = Some(data.fixtures[Min(LiveIdx(team))])
            /\ (Fresh(team) /\ ~HasPair(team) =>
                    sensors[team].cur = Some(data.fixtures[Min(LiveIdx(team))]))

\* a live fixture listed after an upcoming one that starts in two hours
C1_Witness ==
    /\ Len(data.fixtures) = 2
    /\ data.fixtures[1].status = "SCHEDULED"
    /\ data.fixtures[1].start = Time("iso", Hours(2))
    /\ data.fixtures[2].status = "LIVE"
    /\ data.fixtures[2].start = Time("iso", -Hours(25))
    /\ Fresh("1")
    /\ sensors["1"].cur = Some(data.fixtures[2])

---------------------------------------------------------------------------
(* C2 as stated: with no live fixture and both an upcoming and a completed *)
(* fixture, the earliest upcoming fixture is returned if it starts within  *)
(* 48 hours, or if the most recent completed game is more than 12 hours    *)
(* old and the upcoming one starts within 7 days; otherwise the most       *)
(* recent completed fixture is returned.                                   *)

---------------------------------------------------------------------------
(* C3: whenever the fixture list holds a fixture whose home or away team   *)
(* id is the sensor's team id, _get_team_fixture returns one of that       *)
(* team's fixtures, never None, whatever the statuses and start times.     *)

C3_SelectionTotal ==
    \A team \in TrackedTeams :
        TeamIdx(team) # {} =>
            /\ \E i \in TeamIdx(team) :
                    _get_team_fixture(data, team, now) = Some(data.fixtures[i])
            /\ (Fresh(team) /\ ~HasPair(team) => sensors[team].cur # None)

\* the away team's only fixture has a start time that does not parse
C3_Witness ==
    /\ Len(data.fixtures) = 1
    /\ data.fixtures[1].away = "2"
    /\ data.fixtures[1].start.kind = "garbage"
    /\ data.live_scores = <<>>
    /\ Fresh("2")
    /\ sensors["2"].cur = Some(data.fixtures[1])

---------------------------------------------------------------------------
(* C4: a snapshot paired with a fixture whose status is SCHEDULED and      *)
(* whose start time is more than 3600 s in the future is not used: the     *)
(* view comes from the fixture only, data_source is "fixture_only", and    *)
(* is_live is false unless the fixture's own live flag is 1.               *)

StaleScheduled(team) ==
    /\ HasPair(team)
    /\ upper(PairFixture(team).status) = "SCHEDULED"
    /\ PairFixture(team).start.kind \in {"iso", "space"}
    /\ PairFixture(team).start.t - now > 3600

C4_StaleSnapshotRejected ==
    \A team \in TrackedTeams :
        (Fresh(team) /\ StaleScheduled(team)) =>
            /\ ~sensors[team].raised
            /\ sensors[team].cur = Some(PairFixture(team))
            /\ sensors[team].attrs.data_source = "fixture_only"
            /\ "api_live_indicator" \notin DOMAIN sensors[team].attrs
            /\ sensors[team].state = fixture_state(PairFixture(team), now)
            /\ sensors[team].attrs.is_live = (PairFixture(team).live = 1)
            /\ sensors[team].is_live_game = (PairFixture(team).live = 1)

\* a running-clock snapshot for a game scheduled two hours from now
C4_Witness ==
    /\ Fresh("1")
    /\ StaleScheduled("1")
    /\ PairFixture("1").live = 0
    /\ PairSnap("1").shape = "team1"
    /\ PairSnap("1").period = 2
    /\ sensors["1"].state = "PRE"
    /\ sensors["1"].attrs.data_source = "fixture_only"

---------------------------------------------------------------------------
(* C5 as stated: whenever the current fixture of a team carries live flag  *)
(* 1, the state _update_state produces is IN, with or without a snapshot.  *)

C5_Stated_LiveFlagMeansIN ==
    \A team \in TrackedTeams :
        (Fresh(team) /\ ~sensors[team].raised
         /\ IsSome(sensors[team].cur) /\ Get(sensors[team].cur).live = 1) =>
            sensors[team].state = "IN"

---------------------------------------------------------------------------
(* C8: for an accepted snapshot without a live indicator whose state is    *)
(* derived from clock and period (team1_*/team2_* fields, tm list): clock  *)
(* "00:00" at period 4 without overtime gives POST and is_live false, the  *)
(* same clock and period with the overtime flag set gives IN and is_live   *)
(* true, and period 0 without overtime gives PRE.  The overtime flag is    *)
(* in_ot, or for the tm list a period type other than REGULAR.             *)

ClockDerived(team) ==
    /\ Accepted(team)
    /\ PairSnap(team).shape \in {"team1", "tm"}
    /\ PairSnap(team).period_ok
Overtime(snap) ==
    IF snap.shape = "team1" THEN snap.in_ot # 0 ELSE snap.period_type # "REGULAR"
ViewIs(team, st, live) ==
    /\ sensors[team].state = st
    /\ sensors[team].is_live_game = live
    /\ sensors[team].attrs.is_live = live
    /\ sensors[team].attrs.game_status = st

C8_ClockPeriodDerivation ==
    \A team \in TrackedTeams :
        (Fresh(team) /\ ClockDerived(team)) =>
            LET snap == PairSnap(team) IN
            /\ (snap.clock = <<"00", "00">> /\ snap.period = 4 /\ ~Overtime(snap))
                    => ViewIs(team, "POST", FALSE)
            /\ (snap.clock = <<"00", "00">> /\ snap.period = 4 /\ Overtime(snap))
                    => ViewIs(team, "IN", TRUE)
            /\ (snap.period = 0 /\ ~Overtime(snap)) => ViewIs(team, "PRE", FALSE)

\* the final buzzer of regulation with the overtime flag set
C8_Witness ==
    /\ Fresh("2")
    /\ ClockDerived("2")
    /\ PairSnap("2").shape = "team1"
    /\ PairSnap("2").clock = <<"00", "00">>
    /\ PairSnap("2").period = 4
    /\ PairSnap("2").in_ot = 1
    /\ PairFixture("2").status = "LIVE"
    /\ ViewIs("2", "IN", TRUE)
    /\ sensors["2"].timers = 1

---------------------------------------------------------------------------
(* C9: for an accepted snapshot whose state is derived from clock and      *)
(* period, a clock string that cannot be parsed (empty, no colon,          *)
(* non-numeric parts) at a period above 0 does not raise and gives IN,     *)
(* never POST, also at period 4 and beyond.                                *)

C9_UnparsableClockIsRunning ==
    \A team \in TrackedTeams :
        (Fresh(team) /\ ClockDerived(team)
         /\ PairSnap(team).clock \in UnparsableClocks /\ PairSnap(team).period > 0) =>
            /\ ~sensors[team].raised
            /\ ViewIs(team, "IN", TRUE)

\* an empty clock string in the fifth period
C9_Witness ==
    /\ Fresh("1")
    /\ ClockDerived("1")
    /\ PairSnap("1").clock = <<"">>
    /\ PairSnap("1").period = 5
    /\ PairSnap("1").in_ot = 0
    /\ ViewIs("1", "IN", TRUE)

---------------------------------------------------------------------------
(* C6 as stated: a tracked team has a fixture with status SCHEDULED, start *)
(* 10 minutes ahead, no live flag, and a match id.  The poll requests the  *)
(* match, and if the payload reports live = 1 then, once the poll has      *)
(* published its result, the team's view has state IN, is_live true and a  *)
(* data_source naming the live data ("live"; the code writes "live_data",  *)
(* which is accepted here as well).                                        *)

\* the poll has ended and its result is the coordinator's data
Published ==
    /\ ~poll.active
    /\ ~poll.raised
    /\ poll.live_scores_data # <<>>
    /\ data.fixtures = poll.current_fixtures
    /\ data.live_scores = poll.live_scores_data

\* the k-th match of the poll belongs to a fixture of the team that was
\* SCHEDULED, 10 minutes ahead and without live flag when the match was gated
TipOffInTen(team, k) ==
    LET fx == fixture_by_id(poll.current_fixtures, poll.gated[k].game_id)
    IN  /\ IsSome(fx)
        /\ Get(fx).home = team \/ Get(fx).away = team
        /\ Get(fx).status = "SCHEDULED"
        /\ Get(fx).live = 0
        /\ Get(fx).start = Time("iso", poll.gated[k].at + 600)

C6_Stated_EndToEnd ==
    \A team \in TrackedTeams : \A k \in 1..Len(poll.gated) :
        TipOffInTen(team, k) =>
            /\ poll.gated[k].requested
            /\ (poll.gated[k].payload_live = Some(1) /\ Published
                /\ sensors[team].added) =>
                    /\ sensors[team].state = "IN"
                    /\ sensors[team].is_live_game
                    /\ sensors[team].attrs.is_live
                    /\ sensors[team].attrs.data_source \in {"live", "live_data"}

---------------------------------------------------------------------------
(* C7: in async_update_live_scores a request for a match is issued if and  *)
(* only if its fixture is in the fixture list read at the start of the     *)
(* poll and (a) the fixture's status is one of the gate's active statuses  *)
(* IN, LIVE, HT, BT, or (b) it is one of the gate's completion statuses    *)
(* POST, COMPLETE and the start time parses and lies 0 to 24 hours back,   *)
(* or (c) it is SCHEDULED and the start time parses and lies within 900 s  *)
(* of now, either side.  Statuses are compared in upper case.              *)

GateParses(f) == f.start.kind \in {"iso", "space"}
GateActive(f) == upper(f.status) \in {"IN", "LIVE", "HT", "BT"}
GateCompletedRecently(f, at) ==
    /\ upper(f.status) \in {"POST", "COMPLETE"}
    /\ GateParses(f)
    /\ 0 <= at - f.start.t
    /\ at - f.start.t <= 24 * 3600
GateScheduledSoon(f, at) ==
    /\ upper(f.status) = "SCHEDULED"
    /\ GateParses(f)
    /\ f.start.t - at <= 900
    /\ at - f.start.t <= 900
GateFixtures(game_id) ==
    { i \in 1..Len(poll.current_fixtures) : poll.current_fixtures[i].id = game_id }

C7_FetchGating ==
    \A k \in 1..Len(poll.gated) :
        LET e == poll.gated[k] IN
        e.requested <=>
            /\ GateFixtures(e.game_id) # {}
            /\ LET f == poll.current_fixtures[Min(GateFixtures(e.game_id))]
               IN  \/ GateActive(f)
                   \/ GateCompletedRecently(f, e.at)
                   \/ GateScheduledSoon(f, e.at)

\* a poll over two matches: the first, starting in 10 minutes, is requested,
\* the second, starting in 3 days, is not
C7_Witness ==
    /\ Len(poll.gated) = 2
    /\ Len(poll.current_fixtures) = 2
    /\ poll.current_fixtures[1].status = "scheduled"
    /\ poll.current_fixtures[1].start = Time("iso", Minutes(10))
    /\ poll.gated[1].requested
    /\ poll.current_fixtures[2].status = "SCHEDULED"
    /\ poll.current_fixtures[2].start = Time("iso", Days(3))
    /\ ~poll.gated[2].requested

---------------------------------------------------------------------------
(* C10: _update_state run a second time on the same coordinator data at    *)
(* the same time changes nothing: in every step in which a sensor's fields *)
(* are the result of _update_state on the new data, running _update_state  *)
(* once more gives the same state, is_live flag, attributes, stored        *)
(* remover and number of registered timers.                                *)

C10_UpdateStateIdempotent ==
    [][\A team \in TrackedTeams :
        (/\ sensors'[team] # sensors[team]
         /\ sensors'[team]
                = _update_state([sensors[team] EXCEPT !.added = TRUE], data', now'))
            => _update_state(sensors'[team], data', now') = sensors'[team]]_vars

\* ten minutes on, a published snapshot of the second quarter: the sensor is
\* live on it with exactly one timer registered
C10_Witness ==
    /\ now = 600
    /\ Published
    /\ sensors["1"].added
    /\ sensors["1"].state = "IN"
    /\ sensors["1"].is_live_game
    /\ sensors["1"].attrs.data_source = "live_data"
    /\ sensors["1"].attrs.period = 2
    /\ sensors["1"].remover
    /\ sensors["1"].timers = 1

---------------------------------------------------------------------------
(* C11 as stated: after _update_state the state, the is_live flag and the  *)
(* attributes are a function of the coordinator data and the time only: a  *)
(* sensor with an update history holds the view a fresh sensor of the same *)
(* team derives from the same data at the same time.                       *)

View(s) == [state |-> s.state, is_live |-> s.is_live_game, attrs |-> s.attrs]

C11_Stated_PureDerivedState ==
    [][\A team \in TrackedTeams :
        sensors'[team] = _update_state([sensors[team] EXCEPT !.added = TRUE], data', now')
            => View(sensors'[team])
                 = View(_update_state([NewSensor(team) EXCEPT !.added = TRUE], data', now'))]_vars

---------------------------------------------------------------------------
(* C12 as stated: in the fixture-only derivation a fixture whose status    *)
(* denotes a live state (LIVE, IN_PROGRESS, HALFTIME, QUARTER_BREAK) gives *)
(* state IN and is_live true.                                              *)

FixtureOnly(team) ==
    /\ Fresh(team)
    /\ ~sensors[team].raised
    /\ IsSome(sensors[team].cur)
    /\ "data_source" \in DOMAIN sensors[team].attrs
    /\ sensors[team].attrs.data_source = "fixture_only"

C12_Stated_LiveStatusMeansIN ==
    \A team \in TrackedTeams :
        (FixtureOnly(team)
         /\ upper(Get(sensors[team].cur).status) \in {"LIVE", "IN_PROGRESS", "HALFTIME",
                                                      "QUARTER_BREAK"}) =>
            /\ sensors[team].state = "IN"
            /\ sensors[team].is_live_game
            /\ sensors[team].attrs.is_live

---------------------------------------------------------------------------
(* C13: in the fixture-only derivation, for a fixture whose live flag is   *)
(* not 1 and whose start time parses: a completion status (COMPLETE,       *)
(* COMPLETED, FINAL) gives POST exactly when more than 3600 s have passed  *)
(* since the start, and PRE inside that hour; a start in the future gives  *)
(* PRE.                                                                    *)

---------------------------------------------------------------------------
(* C14: after every completed _update_state the sensor's 30-second timer   *)
(* is registered (exactly one callback, the stored remover set) if and     *)
(* only if _is_live_game; a new timer is registered exactly on a step from *)
(* not live to live, the timer is cancelled exactly on a step from live to *)
(* not live, and an update that stays live keeps the same timer.           *)

TimerMatchesLive(s) ==
    /\ s.remover = s.is_live_game
    /\ (s.timer_id # 0) = s.is_live_game
    /\ s.timers = (IF s.is_live_game THEN 1 ELSE 0)

EdgeTriggered(s, s2) ==
    /\ (s2.timer_id # s.timer_id /\ s2.timer_id # 0)
            = (~s.is_live_game /\ s2.is_live_game)
    /\ (s2.timers < s.timers) = (s.is_live_game /\ ~s2.is_live_game)
    /\ (s.is_live_game /\ s2.is_live_game) =>
            (s2.timers = s.timers /\ s2.timer_id = s.timer_id)

C14_EdgeTriggeredTimer ==
    /\ [](\A team \in TrackedTeams : TimerMatchesLive(sensors[team]))
    /\ [][\A team \in TrackedTeams :
            (/\ sensors'[team] # sensors[team]
             /\ ~sensors'[team].raised
             /\ sensors'[team] = _update_state([sensors[team] EXCEPT !.added = TRUE],
                                               data', now'))
                => EdgeTriggered(sensors[team], sensors'[team])]_vars

\* a sensor that stayed live over a published snapshot holds the one timer
\* it registered when it went live
C14_Witness ==
    \E team \in TrackedTeams :
        /\ Published
        /\ sensors[team].added
        /\ ~sensors[team].raised
        /\ sensors[team].is_live_game
        /\ sensors[team].attrs.data_source = "live_data"
        /\ sensors[team].timers = 1
        /\ sensors[team].timer_id = 1

---------------------------------------------------------------------------
(* C15 as stated: the 30-second callback that runs the live fetch          *)
(* (async_update_live_scores) is scheduled only while a tracked team is    *)
(* judged live: the live fetch never runs in a state in which no team is   *)
(* live.                                                                   *)

C15_Stated_PollOnlyWhileLive ==
    poll.active => \E team \in TrackedTeams : sensors[team].is_live_game

---------------------------------------------------------------------------
(* Vocabulary of the fetch properties                                      *)

\* the answer was a 200 with an array and has been processed
FetchedArray ==
    /\ IsSome(response)
    /\ Get(response).exc = "none"
    /\ Get(response).status = 200
    /\ Get(response).body = "array"
    /\ data.present

Games == Get(response).games

\* the team numbers a game names, whichever schema names them
HomeNo(g) ==
    IF IsSome(g.home_team_id) /\ Get(g.home_team_id) # 0 THEN Get(g.home_team_id)
    ELSE IF IsSome(g.hometeamId) THEN Get(g.hometeamId) ELSE 0
AwayNo(g) ==
    IF IsSome(g.away_team_id) /\ Get(g.away_team_id) # 0 THEN Get(g.away_team_id)
    ELSE IF IsSome(g.awayteamId) THEN Get(g.awayteamId) ELSE 0
GameNo(g) == IF IsSome(g.id) /\ Get(g.id) # 0 THEN Get(g.id) ELSE Get(g.matchId)

TrackedNos == { TeamNo(t) : t \in TrackedTeams }
OfTrackedTeam(g) == HomeNo(g) \in TrackedNos \/ AwayNo(g) \in TrackedNos
\* processing the game raises: no object, or a tracked game with a null "live"
Fails(g) == g.form # "dict" \/ (OfTrackedTeam(g) /\ g.live = None)
WellFormed(g) == g.form = "dict" /\ g.live # None

Wanted == { i \in 1..Len(Games) : WellFormed(Games[i]) /\ OfTrackedTeam(Games[i]) }
Rank(i) == Cardinality({ j \in Wanted : j <= i })

---------------------------------------------------------------------------
(* C16: on a 200 answer with an array the fixtures returned are, in the    *)
(* endpoint's order, exactly the well-formed games whose home or away team *)
(* id, read from either schema's field and written as a string, is a       *)
(* tracked team: no game of two untracked teams, none of them missing.     *)

C16_FixtureFiltering ==
    FetchedArray =>
        /\ Len(data.fixtures) = Cardinality(Wanted)
        /\ \A i \in Wanted :
                /\ data.fixtures[Rank(i)].id = GameNo(Games[i])
                /\ data.fixtures[Rank(i)].home = ToString(HomeNo(Games[i]))
                /\ data.fixtures[Rank(i)].away = ToString(AwayNo(Games[i]))
        /\ \A k \in 1..Len(data.fixtures) :
                data.fixtures[k].home \in TrackedTeams \/ data.fixtures[k].away \in TrackedTeams

\* an untracked game first, a tracked game in the new schema second: the
\* second one alone is returned
C16_Witness ==
    /\ FetchedArray
    /\ Len(Games) = 2
    /\ ~OfTrackedTeam(Games[1])
    /\ Games[2].id = None /\ Games[2].hometeamId = Some(2)
    /\ Len(data.fixtures) = 1
    /\ data.fixtures[1].id = 5
    /\ data.fixtures[1].home = "2"

---------------------------------------------------------------------------
(* C17: a 502, 503 or 504 answer, a body that is no array and a timed-out  *)
(* request make _async_update_data return an empty fixture list; it does   *)
(* not raise.                                                              *)

Transient(resp) ==
    \/ resp.exc = "timeout"
    \/ resp.exc = "none" /\ resp.status \in {502, 503, 504}
    \/ resp.exc = "none" /\ resp.status = 200 /\ resp.body # "array"

C17_TransientGivesEmpty ==
    (IsSome(response) /\ Transient(Get(response))) =>
        /\ ~_async_update_data(Get(response), match_ids).failed
        /\ data.present => (data.fixtures = <<>> /\ data.live_scores = <<>>)
        /\ match_ids = <<>>

C17_Witness ==
    /\ IsSome(response)
    /\ Get(response).exc = "none"
    /\ Get(response).status = 503
    /\ data.present
    /\ data.fixtures = <<>>

---------------------------------------------------------------------------
(* C18 as stated: a status other than 200, 502, 503, 504, or a client      *)
(* error that is neither a timeout nor a connection error, makes           *)
(* _async_update_data raise UpdateFailed: the coordinator gets no data     *)
(* from that answer.                                                       *)

NonTransient(resp) ==
    \/ resp.exc = "client_other"
    \/ resp.exc = "none" /\ resp.status \notin {200, 502, 503, 504}

C18_Stated_NonTransientRaises ==
    (IsSome(response) /\ NonTransient(Get(response))) => ~data.present

---------------------------------------------------------------------------
(* C20: when the processing of a game of the array fails, that game alone  *)
(* is skipped: every well-formed game of a tracked team in the same answer *)
(* is returned, in order, the fetch does not raise, and the list is not    *)
(* empty because of the bad record.                                        *)

\* the games whose processing raises: before the append (no object, null
\* "live"), or after it (null stats URL)
BadRecords ==
    { i \in 1..Len(Games) :
        \/ Fails(Games[i])
        \/ (OfTrackedTeam(Games[i]) /\ Games[i].stats_url.kind = "null") }

C20_PerRecordIsolation ==
    (IsSome(response) /\ Get(response).exc = "none" /\ Get(response).status = 200
     /\ Get(response).body = "array" /\ BadRecords # {}) =>
        /\ ~_async_update_data(Get(response), match_ids).failed
        /\ data.present =>
            /\ \A i \in 1..Len(Games) :
                    (~Fails(Games[i]) /\ OfTrackedTeam(Games[i])) =>
                        /\ Rank(i) \in 1..Len(data.fixtures)
                        /\ data.fixtures[Rank(i)].id = GameNo(Games[i])
            /\ \A i \in 1..Len(Games) :
                    Fails(Games[i]) =>
                        \A k \in 1..Len(data.fixtures) :
                            data.fixtures[k].id # GameNo(Games[i])
            /\ (data.fixtures = <<>>) = (Wanted = {})
            /\ \A e \in 1..Len(match_ids) :
                    \E i \in Wanted : Games[i].stats_url.kind = "cebl"
                                      /\ Games[i].stats_url.match_id = match_ids[e].match_id

\* a game with a null "live" first, a good game second: the good one is kept
C20_Witness ==
    /\ FetchedArray
    /\ Len(Games) = 2
    /\ Games[1].live = None /\ OfTrackedTeam(Games[1])
    /\ ~Fails(Games[2])
    /\ Len(data.fixtures) = 1
    /\ data.fixtures[1].id = GameNo(Games[2])

---------------------------------------------------------------------------
(* C19 as stated: async_update_live_scores returns normally for every      *)
(* match id map, coordinator data and HTTP outcome, a map key None         *)
(* included, and a failure on one match leaves the other matches of the    *)
(* same poll to be looked at: a poll never ends with an exception, and a   *)
(* poll that has ended has gone through every entry of the map.            *)

C19_Stated_PollNeverRaises ==
    /\ ~poll.raised
    /\ (~poll.active /\ poll.size > 0) => Len(poll.gated) = poll.size

---------------------------------------------------------------------------
(* C21: no step of async_update_live_scores adds, removes or changes an    *)
(* entry of the coordinator's fixtures list, and a poll that ends without  *)
(* a snapshot (every match gated out or failed) leaves the coordinator's   *)
(* data as they are and runs no listener.                                  *)

\* a step of the poll: only the poll's handlers change its record
PollMoves == poll' # poll

C21_PollLeavesFixtures ==
    [][PollMoves =>
        /\ data'.fixtures = data.fixtures
        /\ poll'.live_scores_data = <<>> => (data' = data /\ sensors' = sensors)]_vars

\* a poll over a match whose request failed has ended with nothing to
\* publish, next to a sensor whose view was derived ten minutes earlier
C21_Witness ==
    /\ ~poll.active
    /\ ~poll.raised
    /\ poll.size > 0
    /\ \E k \in 1..Len(poll.gated) : poll.gated[k].requested
    /\ poll.live_scores_data = <<>>
    /\ data.fixtures # <<>>
    /\ now = 600
    /\ \E team \in TrackedTeams : sensors[team].added

---------------------------------------------------------------------------
(* C22 as stated: whatever refresh runs while a poll is suspended on a     *)
(* request, the snapshots the poll publishes belong to the fixtures it     *)
(* read at its start: in every reachable state each key of live_scores is  *)
(* the id of a fixture in the fixtures list of the same data.              *)

C22_Stated_ConsistentSnapshot ==
    \A k \in 1..Len(data.live_scores) :
        \E i \in 1..Len(data.fixtures) : data.fixtures[i].id = data.live_scores[k].game_id

---------------------------------------------------------------------------
(* C23: hours_since_game is non-null only in a view whose state is POST;    *)
(* with state PRE, IN or "No upcoming game" it is absent or null; whenever *)
(* it is present it is not negative.                                       *)

\* the sensor's view carries a non-null hours_since_game
HasHoursSince(team) ==
    /\ "hours_since_game" \in DOMAIN sensors[team].attrs
    /\ IsSome(sensors[team].attrs.hours_since_game)

C23_Stated_HoursSinceOnlyPost ==
    \A team \in TrackedTeams :
        HasHoursSince(team) =>
            /\ sensors[team].state = "POST"
            /\ Get(sensors[team].attrs.hours_since_game) >= 0

---------------------------------------------------------------------------
(* C24: a malformed start_time_utc (missing, empty, not a timestamp, or a   *)
(* well-formed string that is no date) never propagates: the three timing  *)
(* calculators return None on it, and _update_state on a fixture carrying  *)
(* it completes without raising and yields a lifecycle state.              *)

Malformed(st) == st.kind \in {"missing", "empty", "garbage", "invalid"}

LifecycleStates == {"PRE", "IN", "POST"}

C24_Stated_MalformedTimestampContained ==
    \A team \in TrackedTeams :
        (/\ sensors[team].updated
         /\ IsSome(sensors[team].cur)
         /\ Malformed(Get(sensors[team].cur).start)) =>
            /\ _calculate_kick_off_in_seconds(Get(sensors[team].cur).start, now) = None
            /\ _calculate_time_until_game(Get(sensors[team].cur).start, now) = None
            /\ _calculate_hours_since_game(Get(sensors[team].cur).start,
                    upper(Get(sensors[team].cur).status), now) = None
            /\ ~sensors[team].raised
            /\ sensors[team].state \in LifecycleStates

---------------------------------------------------------------------------
(* C25: when the coordinator data is absent, or holds no fixture involving *)
(* the team (and so no live snapshot for it), _update_state sets the state *)
(* to "No upcoming game", _is_live_game to false and the attributes to     *)
(* exactly {team_id}, leaves no live timer running, and raises nothing.    *)

NoGameFor(team, d) ==
    \/ ~d.present
    \/ \A i \in 1..Len(d.fixtures) :
            d.fixtures[i].home # team /\ d.fixtures[i].away # team

IsSentinel(s) ==
    /\ s.state = "No upcoming game"
    /\ ~s.is_live_game
    /\ s.attrs = [team_id |-> s.team_id]
    /\ s.timers = 0
    /\ ~s.remover
    /\ ~s.raised

C25_NoDataSentinel ==
    \A team \in TrackedTeams :
        /\ IsSentinel(_update_state(sensors[team], NoData, now))
        /\ (sensors[team].added /\ NoGameFor(team, data)) => IsSentinel(sensors[team])

\* a refresh that lost the games it had returned before: the sensor shows
\* the sentinel
C25_Witness ==
    \E team \in TrackedTeams :
        /\ sensors[team].added
        /\ data.present
        /\ match_ids # <<>>
        /\ NoGameFor(team, data)
        /\ sensors[team].state = "No upcoming game"
        /\ sensors[team].timers = 0
        /\ now > 0

---------------------------------------------------------------------------
(* C26: a view built from a live snapshot reads the snapshot against the    *)
(* fixture it was fetched for: the fixture the currency check was given    *)
(* and the fixture that decides which side of a team1/team2 snapshot is    *)
(* the tracked team are both the fixture whose id is the snapshot's key,   *)
(* also when the selection ranks another fixture of the team higher.       *)

\* the sensor shows a view built from a team1/team2 snapshot
SidedLiveView(team) ==
    /\ sensors[team].updated
    /\ ~sensors[team].raised
    /\ IsSome(_get_team_live_data(data, team))
    /\ Get(_get_team_live_data(data, team)).live_data.shape = "team1"
    /\ "data_source" \in DOMAIN sensors[team].attrs
    /\ sensors[team].attrs.data_source = "live_data"

\* the score of the tracked team when the side is decided by the fixture
SideScore(live_data, fixture, team) ==
    IF our_team_name(Some(fixture), team, live_data.team1_name) = live_data.team1_name
    THEN _safe_score(live_data.team1_score)
    ELSE _safe_score(live_data.team2_score)

C26_Stated_SnapshotReadAgainstItsFixture ==
    \A team \in TrackedTeams :
        SidedLiveView(team) =>
            LET found == Get(_get_team_live_data(data, team))
            IN  /\ found.fixture.id = data.live_scores[1].game_id
                /\ sensors[team].cur = Some(found.fixture)
                /\ sensors[team].attrs.team_score
                        = SideScore(found.live_data, found.fixture, team)

---------------------------------------------------------------------------
(* C27: the match-id map is rebuilt by each fixture refresh: its keys are   *)
(* ids of fixtures of the list just returned; an entry of a game that is   *)
(* no longer in the fixture list is not retained.                          *)

\* (a non-empty fixture list comes from a 200 answer with a JSON array)
C27_Stated_MatchIdsRebuilt ==
    (data.present /\ data.fixtures # <<>>) =>
        \A k \in 1..Len(match_ids) :
            \E i \in 1..Len(data.fixtures) : data.fixtures[i].id = match_ids[k].game_id

---------------------------------------------------------------------------
(* C28: _calculate_time_until_game: for a start in the future the text is   *)
(* "In N days", "In N hours" or "In N minutes", N >= 1 being the whole     *)
(* days remaining, else the whole hours (whenever at least one full hour   *)
(* remains), else the whole minutes; for a start at or before now it is    *)
(* "Starting soon".                                                        *)

\* the largest unit of which at least one whole remains, and how many
WholeUnits(seconds) ==
    IF seconds >= Days(1) THEN [n |-> seconds \div Days(1), unit |-> "days"]
    ELSE IF seconds >= Hours(1) THEN [n |-> seconds \div Hours(1), unit |-> "hours"]
    ELSE [n |-> seconds \div Minutes(1), unit |-> "minutes"]

\* the sensor's view carries the text computed for the current time from a
\* start time that parses
HasKickOff(team) ==
    /\ IsSome(sensors[team].cur)
    /\ Get(sensors[team].cur).start.kind \in {"iso", "space"}
    /\ "kick_off_in_friendly" \in DOMAIN sensors[team].attrs
    /\ sensors[team].attrs.kick_off_in_friendly
            = _calculate_time_until_game(Get(sensors[team].cur).start, now)

C28_Stated_TimeUntilGame ==
    \A team \in TrackedTeams :
        HasKickOff(team) =>
            LET seconds == Get(sensors[team].cur).start.t - now
                text == sensors[team].attrs.kick_off_in_friendly
            IN  IF seconds <= 0 THEN text = Some("Starting soon")
                ELSE /\ WholeUnits(seconds).n >= 1
                     /\ text = Some("In " \o ToString(WholeUnits(seconds).n)
                                    \o " " \o WholeUnits(seconds).unit)

---------------------------------------------------------------------------
(* C29: an accepted live snapshot of unrecognized shape does not raise: the *)
(* view has zeroed scores, period 0 and an unknown live indicator, and its *)
(* state is the one the fixture-only derivation gives to a fixture it      *)
(* cannot classify.                                                        *)

\* a fixture that is not live, not completed and has no start time
UnclassifiableFixture == Fx(1, "1", "2", "", Time("empty", 0), 0)

\* the sensor was updated on an accepted snapshot of unrecognized shape
AcceptedUnknownSnapshot(team) ==
    /\ sensors[team].updated
    /\ IsSome(_get_team_live_data(data, team))
    /\ Get(_get_team_live_data(data, team)).live_data.shape = "unknown"
    /\ _is_live_data_current(Get(_get_team_live_data(data, team)).live_data,
                             Get(_get_team_live_data(data, team)).fixture, now)

C29_Stated_UnknownShapeFallback ==
    \A team \in TrackedTeams :
        AcceptedUnknownSnapshot(team) =>
            /\ ~sensors[team].raised
            /\ sensors[team].attrs.data_source = "live_data"
            /\ sensors[team].attrs.team_score = 0
            /\ sensors[team].attrs.opponent_score = 0
            /\ sensors[team].attrs.period = 0
            /\ sensors[team].attrs.api_live_indicator = "None"
            /\ sensors[team].state = fixture_state(UnclassifiableFixture, now)

---------------------------------------------------------------------------
(* C30: a snapshot that carries a live indicator other than 1, paired with  *)
(* a fixture whose status is SCHEDULED and whose start time parses, is not *)
(* used, whatever the start time: the view comes from the fixture only.    *)
(* A snapshot that meets neither this rule nor the one-hour rule of C4 is  *)
(* used: the view does not come from the fixture-only derivation.          *)

NotLiveScheduled(team) ==
    /\ HasPair(team)
    /\ PairSnap(team).has_live
    /\ PairSnap(team).live # 1
    /\ upper(PairFixture(team).status) = "SCHEDULED"
    /\ PairFixture(team).start.kind \in {"iso", "space"}

FromFixtureOnly(team) ==
    /\ "data_source" \in DOMAIN sensors[team].attrs
    /\ sensors[team].attrs.data_source = "fixture_only"

C30_NotLiveSnapshotRejected ==
    \A team \in TrackedTeams :
        (Fresh(team) /\ HasPair(team)) =>
            IF NotLiveScheduled(team) \/ StaleScheduled(team)
            THEN /\ ~sensors[team].raised
                 /\ FromFixtureOnly(team)
                 /\ "api_live_indicator" \notin DOMAIN sensors[team].attrs
                 /\ sensors[team].state = fixture_state(PairFixture(team), now)
            ELSE ~FromFixtureOnly(team)

\* a snapshot saying "not live" for a scheduled game that started 13 hours
\* ago in the fixture list
C30_Witness ==
    /\ Fresh("1")
    /\ NotLiveScheduled("1")
    /\ ~StaleScheduled("1")
    /\ PairFixture("1").start.t < now
    /\ PairFixture("1").live = 0
    /\ sensors["1"].state = "PRE"
    /\ FromFixtureOnly("1")

---------------------------------------------------------------------------
(* C31: an accepted snapshot that carries live indicator 0 and a status of  *)
(* completion (COMPLETE, COMPLETED, FINAL in any case) gives state POST     *)
(* with _is_live_game and the is_live attribute false.                     *)

ExplicitlyOver(team) ==
    /\ Accepted(team)
    /\ PairSnap(team).shape = "fixture"
    /\ PairSnap(team).has_live
    /\ PairSnap(team).live = 0
    /\ upper(PairSnap(team).status) \in {"COMPLETE", "COMPLETED", "FINAL"}

C31_NotLiveCompletedIsPost ==
    \A team \in TrackedTeams :
        (Fresh(team) /\ ExplicitlyOver(team)) =>
            /\ ~sensors[team].raised
            /\ sensors[team].state = "POST"
            /\ ~sensors[team].is_live_game
            /\ sensors[team].attrs.is_live = FALSE
            /\ sensors[team].attrs.data_source = "live_data"
            /\ sensors[team].timers = 0

\* a snapshot with live 0 and status "Final" for a fixture still listed
\* as LIVE
C31_Witness ==
    /\ Fresh("2")
    /\ ExplicitlyOver("2")
    /\ PairSnap("2").status = "Final"
    /\ PairFixture("2").status = "LIVE"
    /\ sensors["2"].state = "POST"

---------------------------------------------------------------------------
(* C32: with an accepted snapshot that has no live indicator, the state is  *)
(* POST only if period >= 4, the overtime flag is unset and the clock      *)
(* reads zero time remaining, the clock being read in both MM:SS and       *)
(* HH:MM:SS: a clock with a non-zero component, such as "00:00:30", at     *)
(* period 4 gives IN, not POST.                                            *)

\* every component of the clock is a number and is zero
ClockReadsZero(clock_str) ==
    /\ Len(clock_str) >= 2
    /\ \A k \in 1..Len(clock_str) : is_numeric(clock_str[k]) /\ int_of(clock_str[k]) = 0

NoIndicatorView(team) ==
    /\ Fresh(team)
    /\ Accepted(team)
    /\ PairSnap(team).shape = "team1"
    /\ PairSnap(team).period_ok
    /\ ~sensors[team].raised

C32_Stated_PostOnlyAtZeroClock ==
    \A team \in TrackedTeams :
        (NoIndicatorView(team) /\ sensors[team].state = "POST") =>
            /\ PairSnap(team).period >= 4
            /\ PairSnap(team).in_ot = 0
            /\ ClockReadsZero(PairSnap(team).clock)

---------------------------------------------------------------------------
(* C33: a team without a live fixture that has upcoming and completed      *)
(* fixtures: the sensor's fixture is the earliest upcoming one if the most *)
(* recent completed fixture started more than 86400 seconds ago or has no  *)
(* start time that parses, and that completed fixture otherwise (at        *)
(* exactly 86400 seconds too), however far away the upcoming fixture is.   *)

BothKinds(team) ==
    /\ LiveIdx(team) = {}
    /\ UpcomingIdx(team) # {}
    /\ CompletedIdx(team) # {}

CompletedIsOld(team) ==
    \/ ~SelParses(MostRecentCompleted(team))
    \/ now - SelStart(MostRecentCompleted(team)) > 86400

C33_OneDayRuleAsCoded ==
    \A team \in TrackedTeams :
        (Fresh(team) /\ ~HasPair(team) /\ BothKinds(team)) =>
            /\ CompletedIsOld(team) =>
                    sensors[team].cur = Some(data.fixtures[EarliestUpcoming(team)])
            /\ ~CompletedIsOld(team) =>
                    sensors[team].cur = Some(data.fixtures[MostRecentCompleted(team)])

\* completed exactly 24 hours ago, upcoming in 2 hours: the completed game
C33_Witness ==
    /\ Len(data.fixtures) = 2
    /\ data.fixtures[1].status = "SCHEDULED"
    /\ data.fixtures[1].start = Time("iso", Hours(2))
    /\ data.fixtures[2].status = "COMPLETE"
    /\ data.fixtures[2].start = Time("iso", -Hours(24))
    /\ Fresh("2")
    /\ BothKinds("2")
    /\ sensors["2"].cur = Some(data.fixtures[2])

---------------------------------------------------------------------------
(* C34: a team without a live fixture: with upcoming fixtures only the      *)
(* sensor's fixture is the one that starts earliest; with completed        *)
(* fixtures only it is the one that started latest, a fixture without a    *)
(* start time that parses coming after every dated one.                    *)

C34_OrderWithinCategory ==
    \A team \in TrackedTeams :
        (Fresh(team) /\ ~HasPair(team) /\ LiveIdx(team) = {}) =>
            /\ (UpcomingIdx(team) # {} /\ CompletedIdx(team) = {}) =>
                    sensors[team].cur = Some(data.fixtures[EarliestUpcoming(team)])
            /\ (CompletedIdx(team) # {} /\ UpcomingIdx(team) = {}) =>
                    sensors[team].cur = Some(data.fixtures[MostRecentCompleted(team)])

\* two completed games, the first without start time: the dated one is shown
C34_Witness ==
    /\ Len(data.fixtures) = 2
    /\ data.fixtures[1].status = "COMPLETE"
    /\ data.fixtures[1].start.kind = "empty"
    /\ data.fixtures[2].status = "COMPLETE"
    /\ data.fixtures[2].start = Time("iso", -Hours(25))
    /\ Fresh("1")
    /\ sensors["1"].cur = Some(data.fixtures[2])

---------------------------------------------------------------------------
(* C35: after every _update_state, an update in which the live-snapshot     *)
(* handler fails internally included, the sensor's _is_live_game flag is   *)
(* true exactly when its state is IN, and the is_live attribute equals the *)
(* flag.                                                                   *)

C35_Stated_LiveFlagMeansIN ==
    \A team \in TrackedTeams :
        (sensors[team].updated /\ ~sensors[team].raised) =>
            /\ sensors[team].is_live_game = (sensors[team].state = "IN")
            /\ "is_live" \in DOMAIN sensors[team].attrs =>
                    sensors[team].attrs.is_live = sensors[team].is_live_game

---------------------------------------------------------------------------
(* C36: over any sequence of _update_state calls, with the timer setup and *)
(* removal they make, and entity removal, a sensor has at most one         *)
(* registered 30-second live timer; a registered timer is the one whose    *)
(* remover the sensor stores, so it can be cancelled; after the entity is  *)
(* removed no timer of the sensor is registered.                           *)

C36_AtMostOneLiveTimer ==
    \A team \in TrackedTeams :
        /\ sensors[team].timers \in {0, 1}
        /\ sensors[team].timers = 1 =>
                (sensors[team].remover /\ sensors[team].timer_id # 0)
        /\ sensors[team].removed => sensors[team].timers = 0

\* a sensor that was removed while its live timer ran, next to one that is
\* still live
C36_Witness ==
    /\ sensors["1"].removed
    /\ sensors["1"].remover
    /\ sensors["1"].is_live_game
    /\ sensors["1"].timers = 0
    /\ sensors["2"].added
    /\ sensors["2"].timers = 1

---------------------------------------------------------------------------
(* C37 as stated: while a sensor's state is IN because of an accepted live *)
(* snapshot, a fixture refresh (the 10-minute one or the one its           *)
(* 30-second timer asks for) that returns the same fixtures leaves the     *)
(* state IN and leaves the sensor's live timer registered.                 *)

LiveFromSnapshot(team) ==
    /\ sensors[team].added
    /\ sensors[team].state = "IN"
    /\ sensors[team].is_live_game
    /\ Accepted(team)
    /\ sensors[team].attrs.data_source = "live_data"

\* a step of refresh: the data is replaced by the fixtures that were
\* fetched, and no live-score poll moves
SameFixturesRefreshed ==
    /\ data' # data
    /\ data'.present
    /\ data'.fixtures = data.fixtures
    /\ poll' = poll
    /\ now' = now

C37_Stated_NoFlicker ==
    [][\A team \in TrackedTeams :
        (SameFixturesRefreshed /\ LiveFromSnapshot(team)) =>
            /\ sensors'[team].state = "IN"
            /\ sensors'[team].timers = sensors[team].timers
            /\ sensors'[team].timer_id = sensors[team].timer_id]_vars

---------------------------------------------------------------------------
(* C38 as stated: every snapshot async_update_live_scores publishes is     *)
(* accepted for as long as it is in the coordinator's data: whenever       *)
(* _get_team_live_data returns a pair for a team, _is_live_data_current is *)
(* true of it, so neither stale-rejection branch is taken on data the      *)
(* coordinator produced.                                                   *)

C38_Stated_PublishedIsAccepted ==
    \A team \in TrackedTeams : HasPair(team) => Accepted(team)

---------------------------------------------------------------------------
(* C39 as stated: the components read a fixture's status alike: the gate   *)
(* of the live fetch treats a status as active exactly when the fixture    *)
(* selection classifies the fixture as live, and the gate treats a status  *)
(* as completed exactly when the selection and the fixture-only derivation *)
(* do.                                                                     *)

GateCompleted(f) == upper(f.status) \in GATE_COMPLETED_STATUSES
SelectedAsLive(f) == category(f, now) = "live"
CompletedByStatus(f) == upper(f.status) \in COMPLETED_STATUSES

\* (stated of the fixtures the gate of a poll has decided on)
C39_Stated_StatusVocabularyConsistent ==
    \A k \in 1..Len(poll.gated) :
        \A i \in 1..Len(poll.current_fixtures) :
            poll.current_fixtures[i].id = poll.gated[k].game_id =>
                /\ GateActive(poll.current_fixtures[i])
                        = SelectedAsLive(poll.current_fixtures[i])
                /\ GateCompleted(poll.current_fixtures[i])
                        = CompletedByStatus(poll.current_fixtures[i])

---------------------------------------------------------------------------
(* C40 as stated: when both teams of one match are tracked and an accepted *)
(* team1/team2 snapshot of the match is applied to both sensors, each      *)
(* sensor's team_score is the other's opponent_score, whatever names the   *)
(* fixture and the snapshot give the two teams.                            *)

\* both sensors show a view built from the same team1/team2 snapshot
BothSided ==
    /\ SidedLiveView("1")
    /\ SidedLiveView("2")
    /\ Accepted("1")
    /\ Accepted("2")
    /\ PairFixture("1") = PairFixture("2")

C40_Stated_ComplementaryScores ==
    BothSided =>
        /\ sensors["1"].attrs.team_score = sensors["2"].attrs.opponent_score
        /\ sensors["2"].attrs.team_score = sensors["1"].attrs.opponent_score

====
